---- MODULE Spec2Model ----
(***************************************************************************)
(* Model of MultiModelOrchestrator.analyze_stock_comprehensive             *)
(* (backend/app/services/multi_model_orchestrator.py).                     *)
(*                                                                         *)
(* Number representation.  Python floats are modelled by exact fixed-point *)
(* integers:                                                               *)
(*   - a model score (score, strength, risk_score) is held in hundredths,  *)
(*     so 80.0 is 8000 and 69.99 is 6999;                                  *)
(*   - the raw ensemble score is held in thousandths (the weights          *)
(*     0.3/0.4/0.3 become 3/4/3 on hundredths), so 87.0 is 87000;          *)
(*   - a price is held in thousandths of the currency unit ("mills"),      *)
(*     so 100.00 is 100000 and 100.005 is 100005;                          *)
(*   - round(x, 2) is exact round-half-to-even to a multiple of 0.01.      *)
(*                                                                         *)
(* Text representation.  A model response is a sequence of lines, a line   *)
(* is a sequence of tokens, a token is a word without whitespace.  A       *)
(* label such as SCORE: is one token (the label and its colon).  Every     *)
(* string the program stores in a dict is a sequence of tokens.            *)
(***************************************************************************)
EXTENDS Integers, Sequences, FiniteSets, TLC

VARIABLES
    pc,                    \* position of the analyze coroutine
    current_price,         \* argument current_price
    price_change_percent,  \* argument price_change_percent (<<>> is None)
    historical_data,       \* argument historical_data (number of bars, <<>> is None)
    fetch,                 \* state of the two Step-1 sub-tasks
    news_data,             \* result of _fetch_news_async
    technical_indicators,  \* result of _fetch_technical_async
    task,                  \* state of the three specialist tasks
    got,                   \* what each model client answered (history)
    outcome,               \* what asyncio.gather holds for each specialist
    opinion,               \* sentiment_result, technical_result, risk_result
    final_decision,        \* result of _generate_ensemble_decision
    anomaly_check,         \* result of _detect_anomaly
    result,                \* the dict analyze_stock_comprehensive returns
    order,                 \* the specialists in the order they settled (history)
    calls,                 \* how often each model client was invoked (history)
    fetched,               \* how each Step-1 provider call ended (history)
    other,                 \* the frame of a second, suspended call (or none)
    orchestrator,          \* the fields of the shared MultiModelOrchestrator
    use_multi_model,       \* MultiModelStockWatcher.use_multi_model
    stack,                 \* the frames of trigger_analysis, outermost first
    requests,              \* the requests of the current trigger_analysis call (history)
    entry,                 \* use_multi_model when the outermost call was entered (history)
    previous_prices,       \* StockWatcher.previous_prices
    position,              \* index of _check_prices in the watchlist (0: not started)
    pending,               \* the trigger whose analysis is awaited (<<>> is none)
    checked,               \* the symbols this round of _check_prices has looked at (history)
    quote,                 \* what get_ltp gave for the symbol looked at last (history)
    analysed               \* the latest trigger and how its analysis request ended (history)

vars == << pc, current_price, price_change_percent, historical_data, fetch,
           news_data, technical_indicators, task, got, outcome,
           opinion,
           final_decision, anomaly_check, result, order, calls, fetched,
           other, orchestrator,
           use_multi_model, stack, requests, entry,
           previous_prices, position, pending, checked, quote, analysed >>

\* the state of the two watcher scripts
multi_watcher == << use_multi_model, stack, requests, entry >>

stock_watcher == << previous_prices, position, pending, checked, quote, analysed >>

\* what no step of a single run of analyze_stock_comprehensive writes
aside == << other, orchestrator, multi_watcher, stock_watcher >>

----------------------------------------------------------------------------
(* Python dicts are functions from key strings to values. *)

EmptyDict == [k \in {} |-> 0]

Has(d, k) == k \in DOMAIN d

Get(d, k, default) == IF k \in DOMAIN d THEN d[k] ELSE default

Put(d, k, v) == (k :> v) @@ d

NoneVal == << >>

Some(v) == << v >>

----------------------------------------------------------------------------
(* Fixed-point arithmetic *)

\* round-half-to-even of n/d (d > 0), as Python's round() does on the value
RoundDiv(n, d) ==
    LET q == n \div d
        r == n % d
    IN  IF 2 * r > d THEN q + 1
        ELSE IF 2 * r < d THEN q
        ELSE IF q % 2 = 0 THEN q ELSE q + 1

\* round(p * ppm / 1000000, 2) for a price p in mills; the result is in mills.
\* The product is split so that no intermediate value leaves 32 bits.
ScaleRound2(p, ppm) ==
    LET ah == ppm \div 1000
        al == ppm % 1000
        y  == p * al
        n  == p * ah + (y \div 1000)      \* floor(p * ppm / 1000)
        yr == y % 1000
        q  == n \div 10000
        nr == n % 10000
        up == nr > 5000 \/ (nr = 5000 /\ yr > 0)
        tie == nr = 5000 /\ yr = 0
    IN  10 * (IF up THEN q + 1
              ELSE IF tie /\ q % 2 = 1 THEN q + 1
              ELSE q)

----------------------------------------------------------------------------
(* Text: tokens, lines, responses *)

\* tokens that end in a colon; split(":", 1) cuts after the first of them
ColonTokens ==
    { "SENTIMENT:", "SCORE:", "DRIVERS:", "MOOD:",
      "SIGNAL:", "STRENGTH:", "KEY_INDICATORS:", "PATTERNS:",
      "RISK_SCORE:", "RISK_LEVEL:", "RISK_FACTORS:", "DOWNSIDE:", "RISK_REWARD:",
      "ANOMALY:", "TYPE:", "SEVERITY:", "REASON:", "Note:", "score:" }

\* the substring test  label in token  of Python's  label in line
TokenContains(tok, label) ==
    \/ tok = label
    \/ tok = "RISK_SCORE:" /\ label = "SCORE:"

\* label in line
LineHas(line, label) == \E i \in 1..Len(line) : TokenContains(line[i], label)

\* line.split(":", 1)[1].strip(): the tokens after the first colon
AfterColon(line) ==
    LET i == CHOOSE j \in 1..Len(line) :
                 /\ line[j] \in ColonTokens
                 /\ \A k \in 1..(j-1) : line[k] \notin ColonTokens
    IN  SubSeq(line, i + 1, Len(line))

\* str.lower() on one token (tokens not listed have no upper-case letter)
LowerToken(tok) ==
    CASE tok = "Bullish"    -> "bullish"
      [] tok = "BEARISH"    -> "bearish"
      [] tok = "BUY"        -> "buy"
      [] tok = "High"       -> "high"
      [] tok = "YES"        -> "yes"
      [] tok = "Note:"      -> "note:"
      [] tok = "SENTIMENT:" -> "sentiment:"
      [] tok = "SCORE:"     -> "score:"
      [] tok = "DRIVERS:"   -> "drivers:"
      [] tok = "MOOD:"      -> "mood:"
      [] tok = "SIGNAL:"    -> "signal:"
      [] tok = "STRENGTH:"  -> "strength:"
      [] tok = "KEY_INDICATORS:" -> "key_indicators:"
      [] tok = "PATTERNS:"  -> "patterns:"
      [] tok = "RISK_SCORE:"   -> "risk_score:"
      [] tok = "RISK_LEVEL:"   -> "risk_level:"
      [] tok = "RISK_FACTORS:" -> "risk_factors:"
      [] tok = "DOWNSIDE:"     -> "downside:"
      [] tok = "RISK_REWARD:"  -> "risk_reward:"
      [] tok = "ANOMALY:"   -> "anomaly:"
      [] tok = "TYPE:"      -> "type:"
      [] tok = "SEVERITY:"  -> "severity:"
      [] tok = "REASON:"    -> "reason:"
      [] OTHER -> tok

\* str.lower() on a text
Lower(text) == [i \in 1..Len(text) |-> LowerToken(text[i])]

\* the texts float() accepts, with their value in hundredths
NumberTokens == { "0", "10", "30", "50", "69.99", "70", "80", "90", "100", "120", "-5" }

NumberValue(tok) ==
    CASE tok = "0"     -> 0
      [] tok = "10"    -> 1000
      [] tok = "30"    -> 3000
      [] tok = "50"    -> 5000
      [] tok = "69.99" -> 6999
      [] tok = "70"    -> 7000
      [] tok = "80"    -> 8000
      [] tok = "90"    -> 9000
      [] tok = "100"   -> 10000
      [] tok = "120"   -> 12000
      [] tok = "-5"    -> -500

\* float(text) succeeds exactly on a single numeric token
FloatOk(text) == Len(text) = 1 /\ text[1] \in NumberTokens

Float(text) == NumberValue(text[1])

\* response.strip().split("\n"): blank lines at both ends are stripped and
\* an empty text still splits into one empty line
RECURSIVE StripLeft(_)
StripLeft(resp) ==
    IF resp # << >> /\ Head(resp) = << >> THEN StripLeft(Tail(resp)) ELSE resp

RECURSIVE StripRight(_)
StripRight(resp) ==
    IF resp # << >> /\ resp[Len(resp)] = << >>
    THEN StripRight(SubSeq(resp, 1, Len(resp) - 1))
    ELSE resp

SplitLines(resp) ==
    LET s == StripRight(StripLeft(resp))
    IN  IF s = << >> THEN << << >> >> ELSE s

----------------------------------------------------------------------------
(* Response parsers.  The loop state is [ok, d]: ok is FALSE once a line  *)
(* has raised (float() on a non-number); the except clause of the parser   *)
(* then discards d and returns the defaults with the raw text.             *)

\* mutant: a positional grammar, the score is only read after the sentiment
SentimentLinePositional(d, line) ==
    IF LineHas(line, "SENTIMENT:")
    THEN [ok |-> TRUE, d |-> Put(d, "sentiment", Lower(AfterColon(line)))]
    ELSE IF LineHas(line, "SCORE:") /\ Has(d, "sentiment")
    THEN IF FloatOk(AfterColon(line))
         THEN [ok |-> TRUE, d |-> Put(d, "score", Float(AfterColon(line)))]
         ELSE [ok |-> FALSE, d |-> d]
    ELSE IF LineHas(line, "DRIVERS:")
    THEN [ok |-> TRUE, d |-> Put(d, "drivers", AfterColon(line))]
    ELSE IF LineHas(line, "MOOD:")
    THEN [ok |-> TRUE, d |-> Put(d, "mood", AfterColon(line))]
    ELSE [ok |-> TRUE, d |-> d]

\* the body of the loop of _parse_sentiment_response
SentimentLine(d, line) ==
    IF LineHas(line, "SENTIMENT:")
    THEN [ok |-> TRUE, d |-> Put(d, "sentiment", Lower(AfterColon(line)))]
    ELSE IF LineHas(line, "SCORE:")
    THEN IF FloatOk(AfterColon(line))
         THEN [ok |-> TRUE, d |-> Put(d, "score", Float(AfterColon(line)))]
         ELSE [ok |-> FALSE, d |-> d]
    ELSE IF LineHas(line, "DRIVERS:")
    THEN [ok |-> TRUE, d |-> Put(d, "drivers", AfterColon(line))]
    ELSE IF LineHas(line, "MOOD:")
    THEN [ok |-> TRUE, d |-> Put(d, "mood", AfterColon(line))]
    ELSE [ok |-> TRUE, d |-> d]

TechnicalLine(d, line) ==
    IF LineHas(line, "SIGNAL:")
    THEN [ok |-> TRUE, d |-> Put(d, "signal", Lower(AfterColon(line)))]
    ELSE IF LineHas(line, "STRENGTH:")
    THEN IF FloatOk(AfterColon(line))
         THEN [ok |-> TRUE, d |-> Put(d, "strength", Float(AfterColon(line)))]
         ELSE [ok |-> FALSE, d |-> d]
    ELSE IF LineHas(line, "KEY_INDICATORS:")
    THEN [ok |-> TRUE, d |-> Put(d, "key_indicators", AfterColon(line))]
    ELSE IF LineHas(line, "PATTERNS:")
    THEN [ok |-> TRUE, d |-> Put(d, "patterns", AfterColon(line))]
    ELSE [ok |-> TRUE, d |-> d]

RiskLine(d, line) ==
    IF LineHas(line, "RISK_SCORE:")
    THEN IF FloatOk(AfterColon(line))
         THEN [ok |-> TRUE, d |-> Put(d, "risk_score", Float(AfterColon(line)))]
         ELSE [ok |-> FALSE, d |-> d]
    ELSE IF LineHas(line, "RISK_LEVEL:")
    THEN [ok |-> TRUE, d |-> Put(d, "risk_level", Lower(AfterColon(line)))]
    ELSE IF LineHas(line, "RISK_FACTORS:")
    THEN [ok |-> TRUE, d |-> Put(d, "risk_factors", AfterColon(line))]
    ELSE IF LineHas(line, "DOWNSIDE:")
    THEN [ok |-> TRUE, d |-> Put(d, "downside", AfterColon(line))]
    ELSE IF LineHas(line, "RISK_REWARD:")
    THEN [ok |-> TRUE, d |-> Put(d, "risk_reward", AfterColon(line))]
    ELSE [ok |-> TRUE, d |-> d]

\* "yes" in line.lower(): a substring test, so "yesterday" counts
LineSaysYes(line) ==
    \E i \in 1..Len(line) : LowerToken(line[i]) \in { "yes", "yesterday" }

AnomalyLine(d, line) ==
    IF LineHas(line, "ANOMALY:")
    THEN [ok |-> TRUE, d |-> Put(d, "anomaly_detected", LineSaysYes(line))]
    ELSE IF LineHas(line, "TYPE:")
    THEN [ok |-> TRUE, d |-> Put(d, "type", AfterColon(line))]
    ELSE IF LineHas(line, "SEVERITY:")
    THEN [ok |-> TRUE, d |-> Put(d, "severity", AfterColon(line))]
    ELSE IF LineHas(line, "REASON:")
    THEN [ok |-> TRUE, d |-> Put(d, "reason", AfterColon(line))]
    ELSE [ok |-> TRUE, d |-> d]

ParseLine(kind, d, line) ==
    CASE kind = "sentiment" -> SentimentLine(d, line)
      [] kind = "technical" -> TechnicalLine(d, line)
      [] kind = "risk"      -> RiskLine(d, line)
      [] kind = "anomaly"   -> AnomalyLine(d, line)

\* for line in lines: ...   (stops at the first line that raises)
RECURSIVE ParseLoop(_, _, _)
ParseLoop(kind, lines, st) ==
    IF lines = << >> \/ ~st.ok THEN st
    ELSE ParseLoop(kind, Tail(lines), ParseLine(kind, st.d, Head(lines)))

\* mutant: the raw text is kept in every returned mapping
ParseSentimentKeepsRaw(response) ==
    LET st == ParseLoop("sentiment", SplitLines(response), [ok |-> TRUE, d |-> EmptyDict])
    IN  IF st.ok THEN Put(st.d, "raw", response)
        ELSE [sentiment |-> << "neutral" >>, score |-> 5000, raw |-> response]

_parse_sentiment_response(response) ==
    LET st == ParseLoop("sentiment", SplitLines(response), [ok |-> TRUE, d |-> EmptyDict])
    IN  IF st.ok THEN st.d
        ELSE [sentiment |-> << "neutral" >>, score |-> 5000, raw |-> response]

_parse_technical_response(response) ==
    LET st == ParseLoop("technical", SplitLines(response), [ok |-> TRUE, d |-> EmptyDict])
    IN  IF st.ok THEN st.d
        ELSE [signal |-> << "hold" >>, strength |-> 5000, raw |-> response]

_parse_risk_response(response) ==
    LET st == ParseLoop("risk", SplitLines(response), [ok |-> TRUE, d |-> EmptyDict])
    IN  IF st.ok THEN st.d
        ELSE [risk_score |-> 5000, risk_level |-> << "medium" >>, raw |-> response]

_parse_anomaly_response(response) ==
    LET st == ParseLoop("anomaly", SplitLines(response), [ok |-> TRUE, d |-> EmptyDict])
    IN  IF st.ok THEN st.d
        ELSE [anomaly_detected |-> FALSE, raw |-> response]


----------------------------------------------------------------------------
(* Ensemble decision, price levels, confidence *)

Text(tok) == << tok >>

\* str(e) of the exception a failed outbound call raised
ErrorText == << "upstream", "failure" >>

\* str(e) of the TypeError raised by arithmetic on a non-numeric price
TypeErrorText == << "unsupported", "operand" >>

\* a numeric current_price in mills, and a current_price that is no number
Price(m) == [num |-> TRUE, mills |-> m]

NotANumber == [num |-> FALSE, mills |-> 0]

\* mutant: the thresholds taken as exclusive lower bounds
LadderExclusive(ensemble_score) ==
    IF ensemble_score > 70000 THEN [action |-> "BUY", confidence |-> "HIGH"]
    ELSE IF ensemble_score > 55000 THEN [action |-> "BUY", confidence |-> "MEDIUM"]
    ELSE IF ensemble_score > 45000 THEN [action |-> "HOLD", confidence |-> "MEDIUM"]
    ELSE IF ensemble_score > 30000 THEN [action |-> "SELL", confidence |-> "MEDIUM"]
    ELSE [action |-> "SELL", confidence |-> "HIGH"]

\* the (action, confidence) ladder on the raw ensemble score (thousandths)
Ladder(ensemble_score) ==
    IF ensemble_score >= 70000 THEN [action |-> "BUY", confidence |-> "HIGH"]
    ELSE IF ensemble_score >= 55000 THEN [action |-> "BUY", confidence |-> "MEDIUM"]
    ELSE IF ensemble_score >= 45000 THEN [action |-> "HOLD", confidence |-> "MEDIUM"]
    ELSE IF ensemble_score >= 30000 THEN [action |-> "SELL", confidence |-> "MEDIUM"]
    ELSE [action |-> "SELL", confidence |-> "HIGH"]

\* mutant: the risk score is not inverted
EnsembleScoreRiskNotInverted(sentiment, technical, risk) ==
    LET sentiment_score    == Get(sentiment, "score", 5000)
        technical_strength == Get(technical, "strength", 5000)
        risk_score         == Get(risk, "risk_score", 5000)
    IN  sentiment_score * 3 + technical_strength * 4 + risk_score * 3

\* sentiment_score * 0.3 + technical_strength * 0.4 + risk_score * 0.3,
\* on hundredths, giving thousandths
EnsembleScore(sentiment, technical, risk) ==
    LET sentiment_score    == Get(sentiment, "score", 5000)
        technical_strength == Get(technical, "strength", 5000)
        risk_score         == 10000 - Get(risk, "risk_score", 5000)
    IN  sentiment_score * 3 + technical_strength * 4 + risk_score * 3

\* mutant: the gain is taken from the score, not from its distance to 50
TargetPriceGainFromScore(price, action, score) ==
    IF action = "BUY" THEN ScaleRound2(price, 1030000 + score)
    ELSE IF action = "SELL" THEN ScaleRound2(price, 980000)
    ELSE price

_calculate_target_price(price, action, score) ==
    IF action = "BUY" THEN ScaleRound2(price, 980000 + score)
    ELSE IF action = "SELL" THEN ScaleRound2(price, 980000)
    ELSE price

\* mutant: HOLD shares the branch of SELL
StopLossHoldAsSell(price, action, risk_score) ==
    IF action = "BUY" THEN ScaleRound2(price, 980000 - 3 * risk_score)
    ELSE ScaleRound2(price, 1020000)

_calculate_stop_loss(price, action, risk_score) ==
    IF action = "BUY" THEN ScaleRound2(price, 980000 - 3 * risk_score)
    ELSE IF action = "SELL" THEN ScaleRound2(price, 1020000)
    ELSE ScaleRound2(price, 970000)

_generate_reasoning(sentiment, technical, risk, action) ==
    LET sent == Get(sentiment, "sentiment", Text("neutral"))
        signal == Get(technical, "signal", Text("hold"))
        risk_level == Get(risk, "risk_level", Text("medium"))
        r1 == IF sent = Text("bullish")
              THEN << << "Positive", "market", "sentiment", "from", "news" >> >>
              ELSE IF sent = Text("bearish")
              THEN << << "Negative", "market", "sentiment", "from", "news" >> >>
              ELSE << >>
        r2 == IF signal = Text("buy")
              THEN << << "Technical", "indicators", "show", "buying", "opportunity" >> >>
              ELSE IF signal = Text("sell")
              THEN << << "Technical", "indicators", "suggest", "selling" >> >>
              ELSE << >>
        r3 == IF risk_level = Text("high") \/ risk_level = Text("extreme")
              THEN << << "High", "risk", "detected:" >>
                      \o Get(risk, "risk_factors", << "multiple", "factors" >>) >>
              ELSE IF risk_level = Text("low")
              THEN << << "Low", "risk", "environment", "supports", "position" >> >>
              ELSE << >>
        reasons == r1 \o r2 \o r3
        Join[i \in 0..Len(reasons)] ==
            IF i = 0 THEN << >>
            ELSE IF i = 1 THEN reasons[1]
            ELSE Join[i - 1] \o << "|" >> \o reasons[i]
    IN  IF reasons # << >> THEN Join[Len(reasons)]
        ELSE << "Consolidated", "analysis", "suggests", action >>

\* the except clause of _generate_ensemble_decision
EnsembleFallback ==
    [ action |-> "HOLD", confidence |-> "LOW", ensemble_score |-> 5000,
      reasoning |-> << "Error", "in", "ensemble", "analysis" >>,
      error |-> TypeErrorText ]

\* The try block raises exactly when the price arithmetic of
\* _calculate_target_price / _calculate_stop_loss meets a non-number.
_generate_ensemble_decision(price, sentiment, technical, risk) ==
    LET ensemble_score == EnsembleScore(sentiment, technical, risk)
        pick == Ladder(ensemble_score)
    IN  IF ~price.num THEN EnsembleFallback
        ELSE
        [ action |-> pick.action,
          confidence |-> pick.confidence,
          ensemble_score |-> RoundDiv(ensemble_score, 10),
          reasoning |-> _generate_reasoning(sentiment, technical, risk, pick.action),
          model_votes |->
              [ sentiment |-> Get(sentiment, "sentiment", Text("neutral")),
                technical |-> Get(technical, "signal", Text("hold")),
                risk |-> Get(risk, "risk_level", Text("medium")) ],
          target_price |-> _calculate_target_price(price.mills, pick.action, ensemble_score),
          stop_loss |-> _calculate_stop_loss(price.mills, pick.action,
                                             Get(risk, "risk_score", 5000)) ]

_handle_result(res, default_message) ==
    IF res.raised
    THEN [error |-> ErrorText, message |-> default_message]
    ELSE res.value

\* mutant: the risk score is collected as it is, not as 100 - risk_score
ConfidenceScoresRiskAsIs(sentiment, technical, risk) ==
    (IF Has(sentiment, "score") THEN << sentiment["score"] >> ELSE << >>)
      \o (IF Has(technical, "strength") THEN << technical["strength"] >> ELSE << >>)
      \o (IF Has(risk, "risk_score") THEN << risk["risk_score"] >> ELSE << >>)

\* the list  scores  of _calculate_confidence, in hundredths
ConfidenceScores(sentiment, technical, risk) ==
    (IF Has(sentiment, "score") THEN << sentiment["score"] >> ELSE << >>)
      \o (IF Has(technical, "strength") THEN << technical["strength"] >> ELSE << >>)
      \o (IF Has(risk, "risk_score") THEN << 10000 - risk["risk_score"] >> ELSE << >>)

\* mutant: the confidence is not clamped at 0
ConfidenceUnclamped(sentiment, technical, risk) ==
    LET scores == ConfidenceScores(sentiment, technical, risk)
        n == Len(scores)
        Sum[i \in 0..n] == IF i = 0 THEN 0 ELSE Sum[i - 1] + scores[i]
        SumSq[i \in 0..n] == IF i = 0 THEN 0 ELSE SumSq[i - 1] + scores[i] * scores[i]
        nnvar == n * SumSq[n] - Sum[n] * Sum[n]
    IN  IF n = 0 THEN 5000
        ELSE IF 1000000 * n * n - nnvar >= 0
        THEN RoundDiv(1000000 * n * n - nnvar, 100 * n * n)
        ELSE -RoundDiv(nnvar - 1000000 * n * n, 100 * n * n)

\* confidence in hundredths: max(0, 100 - population variance), round 2
_calculate_confidence(sentiment, technical, risk) ==
    LET scores == ConfidenceScores(sentiment, technical, risk)
        n == Len(scores)
        Sum[i \in 0..n] == IF i = 0 THEN 0 ELSE Sum[i - 1] + scores[i]
        SumSq[i \in 0..n] == IF i = 0 THEN 0 ELSE SumSq[i - 1] + scores[i] * scores[i]
        \* n^2 * variance, in squared hundredths
        nnvar == n * SumSq[n] - Sum[n] * Sum[n]
    IN  IF n = 0 THEN 5000
        ELSE IF 1000000 * n * n - nnvar <= 0 THEN 0
        ELSE RoundDiv(1000000 * n * n - nnvar, 100 * n * n)


----------------------------------------------------------------------------
(* The inputs and the answers of the outside world *)

Specialists == { "sentiment", "technical", "risk" }

Models == Specialists \cup { "anomaly" }

\* asyncio.gather starts its coroutines in argument order
TaskOrder == << "sentiment", "technical", "risk" >>

\* 100.005, 0, and a value that does not multiply with a float (None, a str,
\* a decimal.Decimal)
Prices == { Price(100005), Price(0), NotANumber }

\* price_change_percent in hundredths of a percent, or None
PriceChanges == { NoneVal, Some(0), Some(-350) }

\* historical_data: None, or a list with that many bars
BarCounts == { 0, 5, 20 }

HistoricalData == { NoneVal } \cup { Some(n) : n \in BarCounts }

Raise == [kind |-> "raise", text |-> << >>]

Reply(resp) == [kind |-> "text", text |-> resp]

NoReply == [kind |-> "none", text |-> << >>]

SentimentReplies ==
    { Raise,
      Reply(<< << "SENTIMENT:", "Bullish" >>, << "SCORE:", "80" >>,
               << "DRIVERS:", "earnings", "beat" >>, << "MOOD:", "upbeat" >> >>),
      Reply(<< << "SENTIMENT:", "bearish" >>, << "SCORE:", "120" >> >>),
      Reply(<< << "SENTIMENT:", "neutral" >>, << "SCORE:", "70", "(strong)" >> >>),
      Reply(<< << "no", "comment" >> >>) }

TechnicalReplies ==
    { Raise,
      Reply(<< << "SIGNAL:", "BUY" >>, << "STRENGTH:", "90" >>,
               << "KEY_INDICATORS:", "rsi" >>, << "PATTERNS:", "breakout" >> >>),
      Reply(<< << "SIGNAL:", "sell" >>, << "STRENGTH:", "10" >> >>),
      Reply(<< << "no", "comment" >> >>) }

RiskReplies ==
    { Raise,
      Reply(<< << "RISK_SCORE:", "10" >>, << "RISK_LEVEL:", "low" >>,
               << "RISK_FACTORS:", "none" >>, << "DOWNSIDE:", "limited" >>,
               << "RISK_REWARD:", "good" >> >>),
      Reply(<< << "RISK_LEVEL:", "High" >>, << "RISK_SCORE:", "90" >>,
               << "RISK_FACTORS:", "debt" >> >>),
      Reply(<< << "RISK_SCORE:", "-5" >> >>),
      Reply(<< << "no", "comment" >> >>) }

AnomalyReplies ==
    { Raise,
      Reply(<< << "ANOMALY:", "YES" >>, << "TYPE:", "spike" >>,
               << "SEVERITY:", "high" >>, << "REASON:", "volume" >> >>),
      Reply(<< << "ANOMALY:", "no" >> >>) }

Replies(m) ==
    CASE m = "sentiment" -> SentimentReplies
      [] m = "technical" -> TechnicalReplies
      [] m = "risk"      -> RiskReplies
      [] m = "anomaly"   -> AnomalyReplies

\* mutant: the stubs carry no error marker
StubWithoutMarker(m) ==
    CASE m = "sentiment" -> [sentiment |-> Text("neutral"), score |-> 5000]
      [] m = "technical" -> [signal |-> Text("hold"), strength |-> 5000]
      [] m = "risk"      -> [risk_score |-> 5000, risk_level |-> Text("medium")]
      [] m = "anomaly"   -> [anomaly_detected |-> FALSE]

\* the except clauses of _analyze_sentiment, _analyze_technical,
\* _assess_risk and _detect_anomaly
Stub(m) ==
    CASE m = "sentiment" -> [sentiment |-> Text("neutral"), score |-> 5000, error |-> ErrorText]
      [] m = "technical" -> [signal |-> Text("hold"), strength |-> 5000, error |-> ErrorText]
      [] m = "risk"      -> [risk_score |-> 5000, risk_level |-> Text("medium"), error |-> ErrorText]
      [] m = "anomaly"   -> [anomaly_detected |-> FALSE, error |-> ErrorText]

Parse(m, response) ==
    CASE m = "sentiment" -> _parse_sentiment_response(response)
      [] m = "technical" -> _parse_technical_response(response)
      [] m = "risk"      -> _parse_risk_response(response)
      [] m = "anomaly"   -> _parse_anomaly_response(response)

\* mutant: a failed specialist call yields an empty opinion
AnswerEmptyOnRaise(m, reply) == IF reply.kind = "raise" THEN EmptyDict ELSE Parse(m, reply.text)

\* the value a specialist coroutine returns for an answer of its model
Answer(m, reply) == IF reply.kind = "raise" THEN Stub(m) ELSE Parse(m, reply.text)

DefaultMessage(m) ==
    CASE m = "sentiment" -> << "Sentiment", "analysis", "unavailable" >>
      [] m = "technical" -> << "Technical", "analysis", "unavailable" >>
      [] m = "risk"      -> << "Risk", "assessment", "unavailable" >>

\* the except clause of _fetch_news_async
DefaultNews ==
    [articles |-> << >>, sentiment |-> [overall |-> "neutral", score |-> 50]]

\* what the news provider returns when it returns
NewsAnswers == { [articles |-> << "a1", "a2" >>] }

MinBars == 20

InsufficientData == [error |-> << "Insufficient", "data" >>]

\* what TechnicalAnalysisService.calculate_indicators returns for n bars
IndicatorAnswers(n) ==
    IF n < MinBars THEN { InsufficientData }
    ELSE { [rsi |-> [value |-> 4550, signal |-> "neutral"], overall_signal |-> "HOLD"] }

NoOutcome == [raised |-> FALSE, value |-> EmptyDict]

\* the fields __init__ assigns: four model clients and two services
Fields ==
    [ sentiment_model |-> "meta/llama-3.1-70b-instruct",
      technical_model |-> "mistralai/mixtral-8x7b-instruct-v0.1",
      risk_model |-> "meta/llama-3.1-405b-instruct",
      anomaly_model |-> "meta/llama-3.1-70b-instruct",
      news_service |-> "MarketAuxService",
      technical_service |-> "TechnicalAnalysisService" ]

\* no second call
NoFrame == << >>

----------------------------------------------------------------------------
(* The run of analyze_stock_comprehensive *)

\* MultiModelStockWatcher.__init__: the flag set, no call in progress
MultiWatcherIdle ==
    /\ use_multi_model = TRUE
    /\ stack = << >>
    /\ requests = << >>
    /\ entry = TRUE

\* StockWatcher.__init__: no baseline yet, monitoring not started
StockWatcherIdle ==
    /\ previous_prices = EmptyDict
    /\ position = 0
    /\ pending = NoneVal
    /\ checked = {}
    /\ quote = NoneVal
    /\ analysed = NoneVal

\* both watcher scripts as constructed
WatchersIdle == MultiWatcherIdle /\ StockWatcherIdle

\* the locals of a call that has not been made yet
Idle ==
    /\ pc = "idle"
    /\ current_price = NotANumber
    /\ price_change_percent = NoneVal
    /\ historical_data = NoneVal
    /\ fetch = [f \in { "news", "technical" } |-> "none"]
    /\ news_data = EmptyDict
    /\ technical_indicators = EmptyDict
    /\ task = [m \in Models |-> "none"]
    /\ got = [m \in Models |-> NoReply]
    /\ outcome = [m \in Specialists |-> NoOutcome]
    /\ opinion = [m \in Specialists |-> EmptyDict]
    /\ final_decision = EmptyDict
    /\ anomaly_check = EmptyDict
    /\ result = EmptyDict
    /\ order = << >>
    /\ calls = [m \in Models |-> 0]
    /\ fetched = [f \in { "news", "technical" } |-> "none"]

\* the orchestrator is constructed and no call has been made
Init ==
    /\ Idle
    /\ other = NoFrame
    /\ orchestrator = Fields
    /\ WatchersIdle

\* the call: arguments are bound, asyncio.gather schedules the two fetches
Call(price, change, bars) ==
    /\ pc = "idle"
    /\ pc' = "setup"
    /\ current_price' = price
    /\ price_change_percent' = change
    /\ historical_data' = bars
    /\ fetch' = [f \in { "news", "technical" } |-> "pending"]
    /\ UNCHANGED << news_data, technical_indicators, task, got, outcome, opinion,
                    final_decision, anomaly_check, result, order >>
    /\ UNCHANGED << calls, fetched >>
    /\ UNCHANGED aside

\* _fetch_news_async up to its await
FetchNewsStart ==
    /\ pc = "setup"
    /\ fetch["news"] = "pending"
    /\ fetch' = [fetch EXCEPT !["news"] = "calling"]
    /\ UNCHANGED << pc, current_price, price_change_percent, historical_data,
                    news_data, technical_indicators, task, got, outcome, opinion,
                    final_decision, anomaly_check, result, order >>
    /\ UNCHANGED << calls, fetched >>
    /\ UNCHANGED aside

\* mutant: a raising news fetch also discards the indicators
FetchNewsFinishClearsBoth(ok, answer) ==
    /\ pc = "setup"
    /\ fetch["news"] = "calling"
    /\ fetch' = [fetch EXCEPT !["news"] = "settled"]
    /\ fetched' = [fetched EXCEPT !["news"] = IF ok THEN "ok" ELSE "raise"]
    /\ news_data' = IF ok THEN answer ELSE DefaultNews
    /\ technical_indicators' = IF ok THEN technical_indicators ELSE EmptyDict
    /\ UNCHANGED << pc, current_price, price_change_percent, historical_data,
                    task, got, outcome, opinion,
                    final_decision, anomaly_check, result, order >>
    /\ UNCHANGED << calls >>
    /\ UNCHANGED aside

\* the news provider returns (ok) or raises
FetchNewsFinish(ok, answer) ==
    /\ pc = "setup"
    /\ fetch["news"] = "calling"
    /\ fetch' = [fetch EXCEPT !["news"] = "settled"]
    /\ fetched' = [fetched EXCEPT !["news"] = IF ok THEN "ok" ELSE "raise"]
    /\ news_data' = IF ok THEN answer ELSE DefaultNews
    /\ UNCHANGED << pc, current_price, price_change_percent, historical_data,
                    technical_indicators, task, got, outcome, opinion,
                    final_decision, anomaly_check, result, order >>
    /\ UNCHANGED << calls >>
    /\ UNCHANGED aside

\* len(historical_data), 0 for None
BarCount(bars) == IF bars = NoneVal THEN 0 ELSE bars[1]

\* if historical_data: (None and the empty list are falsy)
Truthy(bars) == BarCount(bars) > 0

\* _fetch_technical_async up to its await, or to its return {}
FetchTechnicalStart ==
    /\ pc = "setup"
    /\ fetch["technical"] = "pending"
    /\ IF Truthy(historical_data)
       THEN /\ fetch' = [fetch EXCEPT !["technical"] = "calling"]
            /\ UNCHANGED technical_indicators
       ELSE /\ fetch' = [fetch EXCEPT !["technical"] = "settled"]
            /\ technical_indicators' = EmptyDict
    /\ UNCHANGED << pc, current_price, price_change_percent, historical_data,
                    news_data, task, got, outcome, opinion,
                    final_decision, anomaly_check, result, order >>
    /\ UNCHANGED << calls, fetched >>
    /\ UNCHANGED aside

\* calculate_indicators returns (ok) or raises
FetchTechnicalFinish(ok, answer) ==
    /\ pc = "setup"
    /\ fetch["technical"] = "calling"
    /\ fetch' = [fetch EXCEPT !["technical"] = "settled"]
    /\ fetched' = [fetched EXCEPT !["technical"] = IF ok THEN "ok" ELSE "raise"]
    /\ technical_indicators' = IF ok THEN answer ELSE EmptyDict
    /\ UNCHANGED << pc, current_price, price_change_percent, historical_data,
                    news_data, task, got, outcome, opinion,
                    final_decision, anomaly_check, result, order >>
    /\ UNCHANGED << calls >>
    /\ UNCHANGED aside

\* the first gather has returned: the three specialist coroutines are
\* created and handed to the second gather
Dispatch ==
    /\ pc = "setup"
    /\ \A f \in DOMAIN fetch : fetch[f] = "settled"
    /\ pc' = "dispatched"
    /\ task' = [m \in Models |-> IF m \in Specialists THEN "pending" ELSE task[m]]
    /\ UNCHANGED << current_price, price_change_percent, historical_data, fetch,
                    news_data, technical_indicators, got, outcome, opinion,
                    final_decision, anomaly_check, result, order >>
    /\ UNCHANGED << calls, fetched >>
    /\ UNCHANGED aside

Position(m) == CHOOSE i \in 1..Len(TaskOrder) : TaskOrder[i] = m

\* mutant: a failed specialist is invoked a second time
SpecialistStartAgain(m) ==
    /\ pc = "dispatched"
    /\ task[m] \in { "pending", "failed" }
    /\ calls[m] < 2
    /\ \A i \in 1..(Position(m) - 1) : task[TaskOrder[i]] # "pending"
    /\ task' = [task EXCEPT ![m] = "calling"]
    /\ calls' = [calls EXCEPT ![m] = @ + 1]
    /\ UNCHANGED << pc, current_price, price_change_percent, historical_data, fetch,
                    news_data, technical_indicators, got, outcome, opinion,
                    final_decision, anomaly_check, result, order >>
    /\ UNCHANGED << fetched >>
    /\ UNCHANGED aside

\* a specialist coroutine runs up to its await of the model call
SpecialistStart(m) ==
    /\ pc = "dispatched"
    /\ task[m] = "pending"
    /\ \A i \in 1..(Position(m) - 1) : task[TaskOrder[i]] # "pending"
    /\ task' = [task EXCEPT ![m] = "calling"]
    /\ calls' = [calls EXCEPT ![m] = @ + 1]
    /\ UNCHANGED << pc, current_price, price_change_percent, historical_data, fetch,
                    news_data, technical_indicators, got, outcome, opinion,
                    final_decision, anomaly_check, result, order >>
    /\ UNCHANGED << fetched >>
    /\ UNCHANGED aside

Settled(m) == task[m] \in { "completed", "failed" }

\* mutant: a fail-fast join, the first failure cancels the siblings
SpecialistFinishFailFast(m, reply) ==
    /\ pc = "dispatched"
    /\ task[m] = "calling"
    /\ got' = [got EXCEPT ![m] = reply]
    /\ order' = Append(order, m)
    /\ outcome' = [k \in Specialists |->
                     IF k = m THEN [raised |-> FALSE, value |-> Answer(m, reply)]
                     ELSE IF reply.kind = "raise" /\ ~Settled(k)
                     THEN [raised |-> TRUE, value |-> EmptyDict]
                     ELSE outcome[k]]
    /\ task' = [k \in Models |->
                  IF k = m THEN (IF reply.kind = "raise" THEN "failed" ELSE "completed")
                  ELSE IF k \in Specialists /\ reply.kind = "raise" /\ ~Settled(k)
                  THEN "failed"
                  ELSE task[k]]
    /\ UNCHANGED << pc, current_price, price_change_percent, historical_data, fetch,
                    news_data, technical_indicators, opinion,
                    final_decision, anomaly_check, result >>
    /\ UNCHANGED << calls, fetched >>
    /\ UNCHANGED aside

\* the model call returns text or raises; the coroutine parses or
\* substitutes its stub, and returns
SpecialistFinish(m, reply) ==
    /\ pc = "dispatched"
    /\ task[m] = "calling"
    /\ got' = [got EXCEPT ![m] = reply]
    /\ order' = Append(order, m)
    /\ outcome' = [outcome EXCEPT ![m] = [raised |-> FALSE, value |-> Answer(m, reply)]]
    /\ task' = [task EXCEPT ![m] = IF reply.kind = "raise" THEN "failed" ELSE "completed"]
    /\ UNCHANGED << pc, current_price, price_change_percent, historical_data, fetch,
                    news_data, technical_indicators, opinion,
                    final_decision, anomaly_check, result >>
    /\ UNCHANGED << calls, fetched >>
    /\ UNCHANGED aside

\* mutant: the join returns as soon as one specialist has settled
JoinFirstSettled ==
    /\ pc = "dispatched"
    /\ \E m \in Specialists : Settled(m)
    /\ pc' = "scoring"
    /\ opinion' = [m \in Specialists |-> _handle_result(outcome[m], DefaultMessage(m))]
    /\ UNCHANGED << current_price, price_change_percent, historical_data, fetch,
                    news_data, technical_indicators, task, got, outcome,
                    final_decision, anomaly_check, result, order >>
    /\ UNCHANGED << calls, fetched >>
    /\ UNCHANGED aside

\* the second gather returns once all three have settled; _handle_result
Join ==
    /\ pc = "dispatched"
    /\ \A m \in Specialists : Settled(m)
    /\ pc' = "scoring"
    /\ opinion' = [m \in Specialists |-> _handle_result(outcome[m], DefaultMessage(m))]
    /\ UNCHANGED << current_price, price_change_percent, historical_data, fetch,
                    news_data, technical_indicators, task, got, outcome,
                    final_decision, anomaly_check, result, order >>
    /\ UNCHANGED << calls, fetched >>
    /\ UNCHANGED aside

\* mutant: the decision is cached in a field of the shared orchestrator
EnsembleCachesOnSelf ==
    /\ pc = "scoring"
    /\ final_decision' =
         IF Has(orchestrator, "last_decision") THEN orchestrator["last_decision"]
         ELSE _generate_ensemble_decision(current_price,
                  opinion["sentiment"], opinion["technical"], opinion["risk"])
    /\ orchestrator' = Put(orchestrator, "last_decision", final_decision')
    /\ pc' = "anomaly"
    /\ UNCHANGED << current_price, price_change_percent, historical_data, fetch,
                    news_data, technical_indicators, task, got, outcome, opinion,
                    anomaly_check, result, order >>
    /\ UNCHANGED << calls, fetched >>
    /\ UNCHANGED << other, multi_watcher, stock_watcher >>

\* Step 3
Ensemble ==
    /\ pc = "scoring"
    /\ final_decision' = _generate_ensemble_decision(current_price,
                             opinion["sentiment"], opinion["technical"], opinion["risk"])
    /\ pc' = "anomaly"
    /\ UNCHANGED << current_price, price_change_percent, historical_data, fetch,
                    news_data, technical_indicators, task, got, outcome, opinion,
                    anomaly_check, result, order >>
    /\ UNCHANGED << calls, fetched >>
    /\ UNCHANGED aside

NoPriceChange ==
    [anomaly_detected |-> FALSE, reason |-> << "No", "price", "change", "data" >>]

\* mutant: the guard tests falsiness, so a change of 0 counts as absent
DetectAnomalyStartFalsy ==
    /\ pc = "anomaly"
    /\ IF price_change_percent \in { NoneVal, Some(0) }
       THEN /\ anomaly_check' = NoPriceChange
            /\ task' = [task EXCEPT !["anomaly"] = "completed"]
            /\ pc' = "assemble"
            /\ UNCHANGED calls
       ELSE /\ task' = [task EXCEPT !["anomaly"] = "calling"]
            /\ calls' = [calls EXCEPT !["anomaly"] = @ + 1]
            /\ pc' = "anomaly_wait"
            /\ UNCHANGED anomaly_check
    /\ UNCHANGED << current_price, price_change_percent, historical_data, fetch,
                    news_data, technical_indicators, got, outcome, opinion,
                    final_decision, result, order >>
    /\ UNCHANGED << fetched >>
    /\ UNCHANGED aside

\* Step 4: _detect_anomaly up to its return or its await
DetectAnomalyStart ==
    /\ pc = "anomaly"
    /\ IF price_change_percent = NoneVal
       THEN /\ anomaly_check' = NoPriceChange
            /\ task' = [task EXCEPT !["anomaly"] = "completed"]
            /\ pc' = "assemble"
            /\ UNCHANGED calls
       ELSE /\ task' = [task EXCEPT !["anomaly"] = "calling"]
            /\ calls' = [calls EXCEPT !["anomaly"] = @ + 1]
            /\ pc' = "anomaly_wait"
            /\ UNCHANGED anomaly_check
    /\ UNCHANGED << current_price, price_change_percent, historical_data, fetch,
                    news_data, technical_indicators, got, outcome, opinion,
                    final_decision, result, order >>
    /\ UNCHANGED << fetched >>
    /\ UNCHANGED aside

\* mutant: a raising anomaly call is not contained and aborts the run
DetectAnomalyFinishUncontained(reply) ==
    /\ pc = "anomaly_wait"
    /\ task["anomaly"] = "calling"
    /\ got' = [got EXCEPT !["anomaly"] = reply]
    /\ anomaly_check' = IF reply.kind = "raise" THEN anomaly_check
                        ELSE Answer("anomaly", reply)
    /\ task' = [task EXCEPT !["anomaly"] = IF reply.kind = "raise" THEN "failed" ELSE "completed"]
    /\ pc' = IF reply.kind = "raise" THEN "aborted" ELSE "assemble"
    /\ UNCHANGED << current_price, price_change_percent, historical_data, fetch,
                    news_data, technical_indicators, outcome, opinion,
                    final_decision, result, order >>
    /\ UNCHANGED << calls, fetched >>
    /\ UNCHANGED aside

\* the model call of _detect_anomaly returns text or raises
DetectAnomalyFinish(reply) ==
    /\ pc = "anomaly_wait"
    /\ task["anomaly"] = "calling"
    /\ got' = [got EXCEPT !["anomaly"] = reply]
    /\ anomaly_check' = Answer("anomaly", reply)
    /\ task' = [task EXCEPT !["anomaly"] = IF reply.kind = "raise" THEN "failed" ELSE "completed"]
    /\ pc' = "assemble"
    /\ UNCHANGED << current_price, price_change_percent, historical_data, fetch,
                    news_data, technical_indicators, outcome, opinion,
                    final_decision, result, order >>
    /\ UNCHANGED << calls, fetched >>
    /\ UNCHANGED aside

\* mutant: a detected anomaly vetoes the decision and turns it into HOLD
ReturnAnomalyVeto ==
    /\ pc = "assemble"
    /\ result' =
         [ current_price |-> current_price,
           sentiment_analysis |-> opinion["sentiment"],
           technical_analysis |-> opinion["technical"],
           risk_assessment |-> opinion["risk"],
           anomaly_detection |-> anomaly_check,
           final_decision |-> IF Get(anomaly_check, "anomaly_detected", FALSE)
                              THEN Put(final_decision, "action", "HOLD")
                              ELSE final_decision,
           confidence_score |-> _calculate_confidence(opinion["sentiment"],
                                    opinion["technical"], opinion["risk"]),
           metadata |-> [ technical_indicators |-> technical_indicators,
                          news_count |-> Len(Get(news_data, "articles", << >>)) ] ]
    /\ pc' = "done"
    /\ UNCHANGED << current_price, price_change_percent, historical_data, fetch,
                    news_data, technical_indicators, task, got, outcome, opinion,
                    final_decision, anomaly_check, order >>
    /\ UNCHANGED << calls, fetched >>
    /\ UNCHANGED aside

\* the return statement
Return ==
    /\ pc = "assemble"
    /\ result' =
         [ current_price |-> current_price,
           sentiment_analysis |-> opinion["sentiment"],
           technical_analysis |-> opinion["technical"],
           risk_assessment |-> opinion["risk"],
           anomaly_detection |-> anomaly_check,
           final_decision |-> final_decision,
           confidence_score |-> _calculate_confidence(opinion["sentiment"],
                                    opinion["technical"], opinion["risk"]),
           metadata |-> [ technical_indicators |-> technical_indicators,
                          news_count |-> Len(Get(news_data, "articles", << >>)) ] ]
    /\ pc' = "done"
    /\ UNCHANGED << current_price, price_change_percent, historical_data, fetch,
                    news_data, technical_indicators, task, got, outcome, opinion,
                    final_decision, anomaly_check, order >>
    /\ UNCHANGED << calls, fetched >>
    /\ UNCHANGED aside

\* every step of a run after the call was made
Steps ==
    \/ FetchNewsStart
    \/ \E ok \in BOOLEAN, answer \in NewsAnswers : FetchNewsFinish(ok, answer)
    \/ FetchTechnicalStart
    \/ \E ok \in BOOLEAN, answer \in IndicatorAnswers(BarCount(historical_data)) :
           FetchTechnicalFinish(ok, answer)
    \/ Dispatch
    \/ \E m \in Specialists : SpecialistStart(m)
    \/ \E m \in Specialists : \E reply \in Replies(m) : SpecialistFinish(m, reply)
    \/ Join
    \/ Ensemble
    \/ DetectAnomalyStart
    \/ \E reply \in AnomalyReplies : DetectAnomalyFinish(reply)
    \/ Return

Next ==
    \/ \E price \in Prices, change \in PriceChanges, bars \in HistoricalData :
           Call(price, change, bars)
    \/ Steps

Spec == Init /\ [][Next]_vars

\* The run under a fair schedule.  The event loop resumes every coroutine
\* that is ready, and every outbound call returns or raises, so a step
\* that stays possible is eventually taken.  The calls are made with a
\* usable or an unusable price, each price change, and enough bars.
LivePrices == { Price(100005), NotANumber }

LiveNext ==
    \/ \E price \in LivePrices, change \in PriceChanges :
           Call(price, change, Some(MinBars))
    \/ Steps

LiveSpec == Init /\ [][LiveNext]_vars /\ WF_vars(Steps)


----------------------------------------------------------------------------
(* Two calls on the one shared orchestrator.  The event loop runs one     *)
(* coroutine at a time: the locals of the running call are the variables  *)
(* of the run, the locals of the suspended call are kept in  other , and  *)
(* the loop may switch between the two wherever a call awaits.            *)

\* the locals of the running call
Frame ==
    [ pc |-> pc,
      current_price |-> current_price,
      price_change_percent |-> price_change_percent,
      historical_data |-> historical_data,
      fetch |-> fetch,
      news_data |-> news_data,
      technical_indicators |-> technical_indicators,
      task |-> task,
      got |-> got,
      outcome |-> outcome,
      opinion |-> opinion,
      final_decision |-> final_decision,
      anomaly_check |-> anomaly_check,
      result |-> result,
      order |-> order,
      calls |-> calls,
      fetched |-> fetched ]

\* the event loop suspends the running call and resumes the other one
Switch ==
    /\ other # NoFrame
    /\ other' = Frame
    /\ pc' = other.pc
    /\ current_price' = other.current_price
    /\ price_change_percent' = other.price_change_percent
    /\ historical_data' = other.historical_data
    /\ fetch' = other.fetch
    /\ news_data' = other.news_data
    /\ technical_indicators' = other.technical_indicators
    /\ task' = other.task
    /\ got' = other.got
    /\ outcome' = other.outcome
    /\ opinion' = other.opinion
    /\ final_decision' = other.final_decision
    /\ anomaly_check' = other.anomaly_check
    /\ result' = other.result
    /\ order' = other.order
    /\ calls' = other.calls
    /\ fetched' = other.fetched
    /\ UNCHANGED << orchestrator, multi_watcher, stock_watcher >>

PairPrices == { Price(100005), Price(2505) }

\* what the model clients answer in the two-call runs
PairReplies(m) ==
    CASE m = "sentiment" ->
           { Raise, Reply(<< << "SENTIMENT:", "Bullish" >>, << "SCORE:", "80" >> >>) }
      [] m = "technical" ->
           { Raise, Reply(<< << "SIGNAL:", "BUY" >>, << "STRENGTH:", "90" >> >>) }
      [] m = "risk" ->
           { Reply(<< << "RISK_SCORE:", "10" >> >>) }
      [] m = "anomaly" ->
           { Reply(<< << "ANOMALY:", "YES" >> >>) }

PairInit ==
    /\ Idle
    /\ other = Frame
    /\ orchestrator = Fields
    /\ WatchersIdle

PairNext ==
    \/ \E price \in PairPrices, change \in { NoneVal, Some(0) } :
           Call(price, change, NoneVal)
    \/ FetchNewsStart
    \/ \E answer \in NewsAnswers : FetchNewsFinish(FALSE, answer)
    \/ FetchTechnicalStart
    \/ Dispatch
    \/ \E m \in Specialists : SpecialistStart(m)
    \/ \E m \in Specialists : \E reply \in PairReplies(m) : SpecialistFinish(m, reply)
    \/ Join
    \/ Ensemble
    \/ DetectAnomalyStart
    \/ \E reply \in PairReplies("anomaly") : DetectAnomalyFinish(reply)
    \/ Return
    \/ Switch

PairSpec == PairInit /\ [][PairNext]_vars


----------------------------------------------------------------------------
(* The scoring step on a grid of opinions.  The run is entered after the  *)
(* join, with the three handled opinions drawn from a grid of parsed       *)
(* scores (a parser returns any number the model wrote, or no number),     *)
(* no price change, and it runs Step 3, Step 4 and the return.             *)

GridParts == 5

GridScores == { (10000 * i) \div GridParts : i \in 0..GridParts }

\* scores of the boundary cases and of the documented scenario, and two
\* numbers outside 0..100
ExtraScores == { 1000, 3000, 4500, 5500, 6999, 7000, 8000, 9000, 12000, -500 }

Scores == GridScores \cup ExtraScores

\* a parsed opinion that holds just the numeric field, or nothing
ScoreOpinions(key) == { EmptyDict } \cup { (key :> v) : v \in Scores }

GridPrices == { Price(100000), Price(100005), Price(2505), Price(100) }

GridInit ==
    /\ pc = "scoring"
    /\ current_price \in GridPrices
    /\ price_change_percent = NoneVal
    /\ historical_data = NoneVal
    /\ fetch = [f \in { "news", "technical" } |-> "settled"]
    /\ news_data = DefaultNews
    /\ technical_indicators = EmptyDict
    /\ task = [m \in Models |-> IF m \in Specialists THEN "completed" ELSE "none"]
    /\ got = [m \in Models |-> NoReply]
    /\ \E s \in ScoreOpinions("score"), t \in ScoreOpinions("strength"),
          r \in ScoreOpinions("risk_score") :
          /\ opinion = [m \in Specialists |->
                           IF m = "sentiment" THEN s ELSE IF m = "technical" THEN t ELSE r]
          /\ outcome = [m \in Specialists |-> [raised |-> FALSE, value |-> opinion[m]]]
    /\ final_decision = EmptyDict
    /\ anomaly_check = EmptyDict
    /\ result = EmptyDict
    /\ order = TaskOrder
    /\ calls = [m \in Models |-> IF m \in Specialists THEN 1 ELSE 0]
    /\ fetched = [f \in { "news", "technical" } |-> IF f = "news" THEN "raise" ELSE "none"]
    /\ other = NoFrame
    /\ orchestrator = Fields
    /\ WatchersIdle

GridNext == Ensemble \/ DetectAnomalyStart \/ Return

GridSpec == GridInit /\ [][GridNext]_vars


----------------------------------------------------------------------------
(* The four parsers on a pool of response texts.  One parser is handed    *)
(* one text, of up to MaxLines lines; a line is a label of that parser    *)
(* with a value, a numeric label followed by a number and prose, or prose *)
(* without a label.                                                       *)

MaxLines == 4

\* the labels each parser looks for, in the order of its if/elif chain
Labels(m) ==
    CASE m = "sentiment" -> << "SENTIMENT:", "SCORE:", "DRIVERS:", "MOOD:" >>
      [] m = "technical" -> << "SIGNAL:", "STRENGTH:", "KEY_INDICATORS:", "PATTERNS:" >>
      [] m = "risk"      -> << "RISK_SCORE:", "RISK_LEVEL:", "RISK_FACTORS:",
                               "DOWNSIDE:", "RISK_REWARD:" >>
      [] m = "anomaly"   -> << "ANOMALY:", "TYPE:", "SEVERITY:", "REASON:" >>

LabelSet(m) == { Labels(m)[i] : i \in 1..Len(Labels(m)) }

\* the values a model writes after a label
FieldValues(label) ==
    CASE label \in { "SCORE:", "STRENGTH:" } -> { << "80" >>, << "30" >> }
      [] label = "RISK_SCORE:"    -> { << "10" >>, << "90" >> }
      [] label = "SENTIMENT:"     -> { << "Bullish" >> }
      [] label = "SIGNAL:"        -> { << "BUY" >> }
      [] label = "RISK_LEVEL:"    -> { << "High" >> }
      [] label = "ANOMALY:"       -> { << "YES" >>, << "no" >> }
      [] label = "DRIVERS:"       -> { << "earnings", "beat" >> }
      [] label = "MOOD:"          -> { << "upbeat" >> }
      [] label = "KEY_INDICATORS:" -> { << "rsi", "macd" >> }
      [] label = "PATTERNS:"      -> { << "flag" >> }
      [] label = "RISK_FACTORS:"  -> { << "debt" >> }
      [] label = "DOWNSIDE:"      -> { << "limited" >> }
      [] label = "RISK_REWARD:"   -> { << "fair" >> }
      [] label = "TYPE:"          -> { << "spike" >> }
      [] label = "SEVERITY:"      -> { << "minor" >> }
      [] label = "REASON:"        -> { << "volume" >> }

Line(label, value) == << label >> \o value

\* a number followed by prose after the numeric label of the parser
MalformedLines(m) ==
    CASE m = "sentiment" -> { << "SCORE:", "70", "(strong)" >> }
      [] m = "technical" -> { << "STRENGTH:", "70", "(strong)" >> }
      [] m = "risk"      -> { << "RISK_SCORE:", "70", "(strong)" >> }
      [] m = "anomaly"   -> { }

Prose == << "no", "comment" >>

ParserLines(m) ==
    UNION { { Line(label, value) : value \in FieldValues(label) } : label \in LabelSet(m) }
      \cup MalformedLines(m) \cup { Prose }

ParserTexts(m) == UNION { [1..n -> ParserLines(m)] : n \in 0..MaxLines }

\* the value the parser under test returned
Parsed(m) == IF m = "anomaly" THEN anomaly_check ELSE outcome[m].value

\* the model client of one sub-task has answered with a text
ParserInit ==
    /\ pc = "parse"
    /\ \E m \in Models : \E response \in ParserTexts(m) :
         /\ got = [k \in Models |-> IF k = m THEN Reply(response) ELSE NoReply]
         /\ task = [k \in Models |-> IF k = m THEN "calling" ELSE "none"]
         /\ calls = [k \in Models |-> IF k = m THEN 1 ELSE 0]
    /\ current_price = Price(100005)
    /\ price_change_percent = NoneVal
    /\ historical_data = NoneVal
    /\ fetch = [f \in { "news", "technical" } |-> "settled"]
    /\ news_data = DefaultNews
    /\ technical_indicators = EmptyDict
    /\ outcome = [m \in Specialists |-> NoOutcome]
    /\ opinion = [m \in Specialists |-> EmptyDict]
    /\ final_decision = EmptyDict
    /\ anomaly_check = EmptyDict
    /\ result = EmptyDict
    /\ order = << >>
    /\ fetched = [f \in { "news", "technical" } |-> IF f = "news" THEN "raise" ELSE "none"]
    /\ other = NoFrame
    /\ orchestrator = Fields
    /\ WatchersIdle

\* return self._parse_..._response(response.content)
ParseResponse(m) ==
    /\ pc = "parse"
    /\ got[m].kind = "text"
    /\ pc' = "parsed"
    /\ task' = [task EXCEPT ![m] = "completed"]
    /\ IF m = "anomaly"
       THEN /\ anomaly_check' = Parse(m, got[m].text)
            /\ UNCHANGED outcome
       ELSE /\ outcome' = [outcome EXCEPT ![m] =
                             [raised |-> FALSE, value |-> Parse(m, got[m].text)]]
            /\ UNCHANGED anomaly_check
    /\ UNCHANGED << current_price, price_change_percent, historical_data, fetch,
                    news_data, technical_indicators, got, opinion,
                    final_decision, result, order, calls, fetched >>
    /\ UNCHANGED aside

ParserNext == \E m \in Models : ParseResponse(m)

ParserSpec == ParserInit /\ [][ParserNext]_vars


----------------------------------------------------------------------------
(* The overall signal of the indicator provider.  calculate_indicators    *)
(* has filled in the four indicator entries, each with a signal of the    *)
(* vocabulary or left out, and assigns indicators['overall_signal'].      *)

SignalWords == { "bullish", "bearish", "neutral", "overbought", "oversold", "unknown" }

IndicatorNames == { "rsi", "sma", "macd", "bollinger_bands" }

\* indicators.get(name, {}).get('signal', 'neutral')
SignalOf(indicators, name) ==
    IF Has(indicators, name) THEN Get(indicators[name], "signal", "neutral")
    ELSE "neutral"

Count(flags) == Cardinality({ i \in DOMAIN flags : flags[i] })

\* mutant: two agreeing indicators are enough
OverallSignalOfTwo(indicators) ==
    LET bullish_count == Count(<< SignalOf(indicators, "rsi") = "oversold",
                                  SignalOf(indicators, "sma") = "bullish",
                                  SignalOf(indicators, "macd") = "bullish",
                                  SignalOf(indicators, "bollinger_bands") = "oversold" >>)
        bearish_count == Count(<< SignalOf(indicators, "rsi") = "overbought",
                                  SignalOf(indicators, "sma") = "bearish",
                                  SignalOf(indicators, "macd") = "bearish",
                                  SignalOf(indicators, "bollinger_bands") = "overbought" >>)
    IN  IF bullish_count >= 2 THEN "BUY"
        ELSE IF bearish_count >= 2 THEN "SELL"
        ELSE "HOLD"

_generate_overall_signal(indicators) ==
    LET bullish_count == Count(<< SignalOf(indicators, "rsi") = "oversold",
                                  SignalOf(indicators, "sma") = "bullish",
                                  SignalOf(indicators, "macd") = "bullish",
                                  SignalOf(indicators, "bollinger_bands") = "oversold" >>)
        bearish_count == Count(<< SignalOf(indicators, "rsi") = "overbought",
                                  SignalOf(indicators, "sma") = "bearish",
                                  SignalOf(indicators, "macd") = "bearish",
                                  SignalOf(indicators, "bollinger_bands") = "overbought" >>)
    IN  IF bullish_count >= 3 THEN "BUY"
        ELSE IF bearish_count >= 3 THEN "SELL"
        ELSE "HOLD"

\* the indicator mappings: every subset of the four entries, every signal
IndicatorMaps ==
    UNION { [names -> { [signal |-> w] : w \in SignalWords }] :
                names \in SUBSET IndicatorNames }

SignalInit ==
    /\ pc = "indicators"
    /\ technical_indicators \in IndicatorMaps
    /\ current_price = Price(100005)
    /\ price_change_percent = NoneVal
    /\ historical_data = Some(MinBars)
    /\ fetch = [f \in { "news", "technical" } |-> IF f = "news" THEN "settled" ELSE "calling"]
    /\ news_data = DefaultNews
    /\ task = [m \in Models |-> "none"]
    /\ got = [m \in Models |-> NoReply]
    /\ outcome = [m \in Specialists |-> NoOutcome]
    /\ opinion = [m \in Specialists |-> EmptyDict]
    /\ final_decision = EmptyDict
    /\ anomaly_check = EmptyDict
    /\ result = EmptyDict
    /\ order = << >>
    /\ calls = [m \in Models |-> 0]
    /\ fetched = [f \in { "news", "technical" } |-> IF f = "news" THEN "raise" ELSE "none"]
    /\ other = NoFrame
    /\ orchestrator = Fields
    /\ WatchersIdle

\* indicators['overall_signal'] = _generate_overall_signal(indicators)
OverallSignal ==
    /\ pc = "indicators"
    /\ pc' = "indicators_done"
    /\ technical_indicators' =
         Put(technical_indicators, "overall_signal",
             _generate_overall_signal(technical_indicators))
    /\ UNCHANGED << current_price, price_change_percent, historical_data, fetch,
                    news_data, task, got, outcome, opinion, final_decision,
                    anomaly_check, result, order, calls, fetched >>
    /\ UNCHANGED aside

SignalNext == OverallSignal

SignalSpec == SignalInit /\ [][SignalNext]_vars

(***************************************************************************)
(* MultiModelStockWatcher.trigger_analysis                                 *)
(* (backend/watcher_multimodel_example.py)                                 *)
(***************************************************************************)

\* the variables of the orchestrator side
orchestration == << pc, current_price, price_change_percent, historical_data,
                    fetch, news_data, technical_indicators, task, got, outcome,
                    opinion, final_decision, anomaly_check, result, order,
                    calls, fetched, other, orchestrator >>

MultiModelEndpoint == "/api/get_stock_analysis_multimodel"

SingleModelEndpoint == "/api/get_stock_analysis"

\* self.watchlist of the example watcher
ExampleWatchlist == { "RELIANCE", "TCS", "INFY", "TATAMOTORS" }

TriggerTypes == { "price_drop", "price_spike" }

\* how a request ends: status 200 and the result displayed, status 200 and
\* reading or displaying the body raises, another status, or the post raises
\* (the client has a timeout of 60 seconds)
PostOutcomes == { "ok", "unreadable", "rejected", "raise" }

\* the if at the head of the try block
Endpoint(flag) == IF flag THEN MultiModelEndpoint ELSE SingleModelEndpoint

\* a frame of trigger_analysis suspended in client.post
Entered(flag, symbol, trigger_type) ==
    [symbol |-> symbol, trigger_type |-> trigger_type,
     endpoint |-> Endpoint(flag), at |-> "post"]

Request(frame) ==
    [endpoint |-> frame.endpoint, symbol |-> frame.symbol,
     trigger_type |-> frame.trigger_type, outcome |-> "pending"]

\* the assignments to watcher.use_multi_model of comparison_example
SetMode(flag) ==
    /\ stack = << >>
    /\ use_multi_model # flag
    /\ use_multi_model' = flag
    /\ UNCHANGED << stack, requests, entry >>
    /\ UNCHANGED << orchestration, stock_watcher >>

\* a caller awaits watcher.trigger_analysis(...): the body runs up to the
\* await of client.post
TriggerAnalysis(symbol, trigger_type) ==
    /\ stack = << >>
    /\ entry' = use_multi_model
    /\ stack' = << Entered(use_multi_model, symbol, trigger_type) >>
    /\ requests' = << Request(Entered(use_multi_model, symbol, trigger_type)) >>
    /\ UNCHANGED use_multi_model
    /\ UNCHANGED << orchestration, stock_watcher >>

\* mutant: the fallback keeps the multi-model flag set
RespondKeepsFlag(reply) ==
    /\ stack # << >>
    /\ stack[Len(stack)].at = "post"
    /\ LET top == stack[Len(stack)]
           settled == [requests EXCEPT ![Len(requests)].outcome = reply]
       IN  IF reply # "ok" /\ use_multi_model
           THEN /\ use_multi_model' = TRUE
                /\ stack' = Append([stack EXCEPT ![Len(stack)].at = "fallback"],
                                   Entered(TRUE, top.symbol, top.trigger_type))
                /\ requests' = Append(settled,
                                      Request(Entered(TRUE, top.symbol, top.trigger_type)))
           ELSE /\ stack' = SubSeq(stack, 1, Len(stack) - 1)
                /\ requests' = settled
                /\ UNCHANGED use_multi_model
    /\ UNCHANGED entry
    /\ UNCHANGED << orchestration, stock_watcher >>

\* client.post settles in the innermost frame.  Status 200 displayed: the
\* frame returns.  Any other outcome reaches one of the two fallback blocks
\* (the else branch for another status, the except clause for an exception):
\* with the flag set it is cleared and trigger_analysis awaited again with
\* the same arguments, which runs the new frame up to its client.post;
\* with the flag clear the frame returns.
Respond(reply) ==
    /\ stack # << >>
    /\ stack[Len(stack)].at = "post"
    /\ LET top == stack[Len(stack)]
           settled == [requests EXCEPT ![Len(requests)].outcome = reply]
       IN  IF reply # "ok" /\ use_multi_model
           THEN /\ use_multi_model' = FALSE
                /\ stack' = Append([stack EXCEPT ![Len(stack)].at = "fallback"],
                                   Entered(FALSE, top.symbol, top.trigger_type))
                /\ requests' = Append(settled,
                                      Request(Entered(FALSE, top.symbol, top.trigger_type)))
           ELSE /\ stack' = SubSeq(stack, 1, Len(stack) - 1)
                /\ requests' = settled
                /\ UNCHANGED use_multi_model
    /\ UNCHANGED entry
    /\ UNCHANGED << orchestration, stock_watcher >>

\* the awaited inner call has returned: "self.use_multi_model = True  # Reset"
\* and the frame returns
Reset ==
    /\ stack # << >>
    /\ stack[Len(stack)].at = "fallback"
    /\ use_multi_model' = TRUE
    /\ stack' = SubSeq(stack, 1, Len(stack) - 1)
    /\ UNCHANGED << requests, entry >>
    /\ UNCHANGED << orchestration, stock_watcher >>

\* the steps of a call in progress
WatcherSteps == (\E reply \in PostOutcomes : Respond(reply)) \/ Reset

WatcherNext ==
    \/ \E flag \in BOOLEAN : SetMode(flag)
    \/ \E symbol \in ExampleWatchlist, trigger_type \in TriggerTypes :
          TriggerAnalysis(symbol, trigger_type)
    \/ \E reply \in PostOutcomes : Respond(reply)
    \/ Reset

\* the watcher is constructed and the orchestrator is not in use; every
\* request settles, since the client gives up after its timeout
WatcherSpec == Init /\ [][WatcherNext]_vars /\ WF_vars(WatcherSteps)

(***************************************************************************)
(* StockWatcher (backend/watcher/stock_watcher.py)                         *)
(*                                                                         *)
(* Prices are in hundredths of a rupee and the two thresholds in           *)
(* hundredths of a percent, so that the comparison of                      *)
(* ((current - previous) / previous) * 100 with a threshold is the         *)
(* comparison of (current - previous) * 10000 with threshold * previous    *)
(* (a baseline is never zero: only truthy prices are stored).              *)
(***************************************************************************)

\* settings.watchlist_symbols_list for the default WATCHLIST_SYMBOLS
watchlist == << "TATAMOTORS", "RELIANCE", "TCS", "INFY" >>

\* settings.PRICE_DROP_THRESHOLD and settings.PRICE_SPIKE_THRESHOLD (2.0)
price_drop_threshold == 200

price_spike_threshold == 200

\* what AngelOneService.get_ltp gives: a price, None, or an exception
Ltp(value) == [kind |-> "price", value |-> value]

NoLtp == [kind |-> "none", value |-> 0]

LtpRaise == [kind |-> "raise", value |-> 0]

LtpValues == { 9800, 10000, 10200 }

LtpOutcomes == { NoLtp, LtpRaise, Ltp(0) } \cup { Ltp(value) : value \in LtpValues }

\* "if price:" and "if not current_price"
Quoted(ltp) == ltp.kind = "price" /\ ltp.value # 0

\* _initialize_prices: a baseline for every symbol whose price is truthy
\* (an exception is printed and the symbol skipped)
_initialize_prices(quotes) ==
    /\ position = 0
    /\ previous_prices' =
          [symbol \in { watchlist[i] : i \in { j \in DOMAIN watchlist : Quoted(quotes[j]) } } |->
              quotes[CHOOSE i \in DOMAIN watchlist : watchlist[i] = symbol].value]
    /\ position' = 1
    /\ UNCHANGED << pending, checked, quote, analysed >>
    /\ UNCHANGED << orchestration, multi_watcher >>

\* mutant: a change of exactly the threshold is no anomaly
TriggerTypeStrict(current, previous) ==
    IF (current - previous) * 10000 < -price_drop_threshold * previous
    THEN Some("price_drop")
    ELSE IF (current - previous) * 10000 > price_spike_threshold * previous
         THEN Some("price_spike")
         ELSE NoneVal

\* trigger_type of _check_prices (<<>> is None)
TriggerTypeOf(current, previous) ==
    IF (current - previous) * 10000 <= -price_drop_threshold * previous
    THEN Some("price_drop")
    ELSE IF (current - previous) * 10000 >= price_spike_threshold * previous
         THEN Some("price_spike")
         ELSE NoneVal

\* one iteration of the loop of _check_prices up to the await of
\* _trigger_analysis; without a trigger (no price, no baseline, an
\* exception, a small change) the loop goes on to the next symbol
CheckSymbol(ltp) ==
    /\ position \in DOMAIN watchlist
    /\ pending = NoneVal
    /\ LET symbol == watchlist[position]
           fires == /\ Quoted(ltp)
                    /\ Has(previous_prices, symbol)
                    /\ TriggerTypeOf(ltp.value, previous_prices[symbol]) # NoneVal
       IN  /\ checked' = checked \cup { symbol }
           /\ quote' = Some(ltp)
           /\ IF fires
              THEN /\ pending' = Some([symbol |-> symbol,
                                       trigger_type |-> TriggerTypeOf(ltp.value, previous_prices[symbol])[1],
                                       current_price |-> ltp.value,
                                       previous_price |-> previous_prices[symbol]])
                   /\ UNCHANGED position
              ELSE /\ position' = position + 1
                   /\ UNCHANGED pending
    /\ UNCHANGED << previous_prices, analysed >>
    /\ UNCHANGED << orchestration, multi_watcher >>

\* _trigger_analysis returns, however its request ended (it catches every
\* exception), and the baseline of the symbol becomes the current price
TriggerDone(reply) ==
    /\ pending # NoneVal
    /\ analysed' = Some([trigger |-> pending[1], outcome |-> reply])
    /\ previous_prices' = Put(previous_prices, pending[1].symbol, pending[1].current_price)
    /\ pending' = NoneVal
    /\ position' = position + 1
    /\ UNCHANGED << checked, quote >>
    /\ UNCHANGED << orchestration, multi_watcher >>

\* the loop of start_monitoring: _check_prices has returned, and after the
\* sleep it is called again
Sleep ==
    /\ position = Len(watchlist) + 1
    /\ position' = 1
    /\ checked' = {}
    /\ UNCHANGED << previous_prices, pending, quote, analysed >>
    /\ UNCHANGED << orchestration, multi_watcher >>

MonitorNext ==
    \/ \E quotes \in [DOMAIN watchlist -> LtpOutcomes] : _initialize_prices(quotes)
    \/ \E ltp \in LtpOutcomes : CheckSymbol(ltp)
    \/ \E reply \in PostOutcomes : TriggerDone(reply)
    \/ Sleep

\* the watcher is constructed and the orchestrator is not in use
MonitorSpec == Init /\ [][MonitorNext]_vars


----------------------------------------------------------------------------
(* Properties *)

ResultKey(m) ==
    CASE m = "sentiment" -> "sentiment_analysis"
      [] m = "technical" -> "technical_analysis"
      [] m = "risk"      -> "risk_assessment"
      [] m = "anomaly"   -> "anomaly_detection"

ResultKeys ==
    { "current_price", "sentiment_analysis", "technical_analysis", "risk_assessment",
      "anomaly_detection", "final_decision", "confidence_score", "metadata" }

Raised(m) == got[m].kind = "raise"

Answered(m) == got[m].kind = "text"

\* the documented default stub of a failed call, with its error marker
IsDefaultStub(m, d) ==
    /\ Has(d, "error")
    /\ CASE m = "sentiment" -> /\ DOMAIN d = { "sentiment", "score", "error" }
                               /\ d["sentiment"] = << "neutral" >>
                               /\ d["score"] = 5000
         [] m = "technical" -> /\ DOMAIN d = { "signal", "strength", "error" }
                               /\ d["signal"] = << "hold" >>
                               /\ d["strength"] = 5000
         [] m = "risk"      -> /\ DOMAIN d = { "risk_score", "risk_level", "error" }
                               /\ d["risk_level"] = << "medium" >>
                               /\ d["risk_score"] = 5000
         [] m = "anomaly"   -> /\ DOMAIN d = { "anomaly_detected", "error" }
                               /\ d["anomaly_detected"] = FALSE

\* C1: failure isolation.  Whatever subset of the four model calls raised,
\* the run ends with a complete result; the opinion of each call that raised
\* is its default stub with an error marker (neutral/50, hold/50, medium/50,
\* anomaly_detected false) and the opinion of each call that answered is
\* exactly what its parser makes of the answer.
C1_FailureIsolation ==
    /\ pc \in { "idle", "setup", "dispatched", "scoring", "anomaly",
                "anomaly_wait", "assemble", "done" }
    /\ pc = "done" =>
         /\ DOMAIN result = ResultKeys
         /\ \A m \in Models :
              /\ Raised(m) => IsDefaultStub(m, result[ResultKey(m)])
              /\ Answered(m) => result[ResultKey(m)] = Parse(m, got[m].text)

\* the scenario of the specification: technical raises, the others answer
C1_Witness ==
    /\ pc = "done"
    /\ Raised("technical") /\ Answered("sentiment") /\ Answered("risk")
    /\ Raised("anomaly")
    /\ Has(result["technical_analysis"], "error")
    /\ ~Has(result["sentiment_analysis"], "error")

\* round(price * 0.97, 2) for a price in mills, written out
Round2Of97Percent(mills) == 10 * RoundDiv(97 * mills, 1000)

\* C2: under total upstream failure (every model call raised) with a
\* numeric price, the three opinions are 50/50/50, ensemble_score is 50,
\* the decision is HOLD/MEDIUM, target_price is current_price and stop_loss
\* is current_price * 0.97 (to the 2 decimals of Step D).
C2_TotalFailure ==
    (/\ pc = "done"
     /\ current_price.num
     /\ \A m \in Specialists : Raised(m)
     /\ got["anomaly"].kind \in { "raise", "none" })
    =>
    /\ result["sentiment_analysis"]["score"] = 5000
    /\ result["technical_analysis"]["strength"] = 5000
    /\ result["risk_assessment"]["risk_score"] = 5000
    /\ result["final_decision"]["ensemble_score"] = 5000
    /\ result["final_decision"]["action"] = "HOLD"
    /\ result["final_decision"]["confidence"] = "MEDIUM"
    /\ result["final_decision"]["target_price"] = current_price.mills
    /\ result["final_decision"]["stop_loss"] = Round2Of97Percent(current_price.mills)

\* every call raised at price 100.005: HOLD, target 100.005, stop 97.00
C2_Witness ==
    /\ pc = "done"
    /\ current_price = Price(100005)
    /\ \A m \in Models : Raised(m)
    /\ result["final_decision"]["action"] = "HOLD"
    /\ result["final_decision"]["target_price"] = 100005
    /\ result["final_decision"]["stop_loss"] = 97000

DecisionKeys ==
    { "action", "confidence", "ensemble_score", "reasoning", "model_votes",
      "target_price", "stop_loss" }

\* C3: every final_decision of a finished run has action in {BUY,SELL,HOLD},
\* confidence in {LOW,MEDIUM,HIGH}, ensemble_score, reasoning, model_votes
\* (sentiment, technical, risk), target_price and stop_loss.
C3_DecisionComplete ==
    pc = "done" =>
      LET fd == result["final_decision"]
      IN  /\ DecisionKeys \subseteq DOMAIN fd
          /\ fd["action"] \in { "BUY", "SELL", "HOLD" }
          /\ fd["confidence"] \in { "LOW", "MEDIUM", "HIGH" }
          /\ DOMAIN fd["model_votes"] = { "sentiment", "technical", "risk" }

\* the raw ensemble score (thousandths) of the three handled opinions, as the
\* specification writes it
RawScore ==
    3 * Get(opinion["sentiment"], "score", 5000)
    + 4 * Get(opinion["technical"], "strength", 5000)
    + 3 * (10000 - Get(opinion["risk"], "risk_score", 5000))

Decided == pc \in { "anomaly", "anomaly_wait", "assemble", "done" }

Pair(action, confidence) ==
    /\ final_decision["action"] = action
    /\ final_decision["confidence"] = confidence

\* C4: the ladder is a total partition with inclusive lower bounds: a raw
\* score in [0,100] selects BUY/HIGH from 70, BUY/MEDIUM from 55 below 70,
\* HOLD/MEDIUM from 45 below 55, SELL/MEDIUM from 30 below 45, SELL/HIGH
\* below 30, and no other pair.
C4_Ladder ==
    (Decided /\ current_price.num /\ RawScore >= 0 /\ RawScore <= 100000) =>
      /\ RawScore >= 70000 <=> Pair("BUY", "HIGH")
      /\ (RawScore >= 55000 /\ RawScore < 70000) <=> Pair("BUY", "MEDIUM")
      /\ (RawScore >= 45000 /\ RawScore < 55000) <=> Pair("HOLD", "MEDIUM")
      /\ (RawScore >= 30000 /\ RawScore < 45000) <=> Pair("SELL", "MEDIUM")
      /\ RawScore < 30000 <=> Pair("SELL", "HIGH")

\* a score of exactly 70 has been decided BUY/HIGH
C4_Witness ==
    /\ pc = "done"
    /\ RawScore = 70000
    /\ result["final_decision"]["action"] = "BUY"
    /\ result["final_decision"]["confidence"] = "HIGH"

InRange(x) == x >= 0 /\ x <= 10000

\* C5: the reported ensemble_score is score*0.3 + strength*0.4 +
\* (100 - risk_score)*0.3 with 50 for an absent field (at its 2 decimals),
\* and lies in [0,100] whenever the three inputs lie in [0,100].
C5_EnsembleScore ==
    (Decided /\ current_price.num) =>
      LET s == IF Has(opinion["sentiment"], "score") THEN opinion["sentiment"]["score"] ELSE 5000
          t == IF Has(opinion["technical"], "strength") THEN opinion["technical"]["strength"] ELSE 5000
          r == IF Has(opinion["risk"], "risk_score") THEN opinion["risk"]["risk_score"] ELSE 5000
          tenfold == 3 * s + 4 * t + 3 * (10000 - r)
      IN  /\ 10 * final_decision["ensemble_score"] - tenfold \in -5..5
          /\ (tenfold % 10 = 0) => 10 * final_decision["ensemble_score"] = tenfold
          /\ (InRange(s) /\ InRange(t) /\ InRange(r))
                => InRange(final_decision["ensemble_score"])

\* the documented scenario 80/90/10 has been scored 87
C5_Witness ==
    /\ Decided
    /\ opinion["sentiment"] = ("score" :> 8000)
    /\ opinion["technical"] = ("strength" :> 9000)
    /\ opinion["risk"] = ("risk_score" :> 1000)
    /\ final_decision["ensemble_score"] = 8700

\* C6: in every result the scores present and the ensemble_score lie in
\* 0..100, whatever the model clients answered.
C6_ScoresInRange ==
    pc = "done" =>
      /\ Has(result["sentiment_analysis"], "score")
            => InRange(result["sentiment_analysis"]["score"])
      /\ Has(result["technical_analysis"], "strength")
            => InRange(result["technical_analysis"]["strength"])
      /\ Has(result["risk_assessment"], "risk_score")
            => InRange(result["risk_assessment"]["risk_score"])
      /\ InRange(result["final_decision"]["ensemble_score"])


\* gain_percent = 3 + (ensemble_score - 50) * 0.1, in 1/10000 of a percent
GainPercentE4 == 30000 + (RawScore - 50000)

\* loss_percent = 2 + (risk_score / 100) * 3, in 1/10000 of a percent
LossPercentE4 == 20000 + 3 * Get(opinion["risk"], "risk_score", 5000)

\* C7: the price levels follow the action (each at the 2 decimals of Step D):
\* BUY has target current_price * (1 + gain_percent/100) and stop
\* current_price * (1 - loss_percent/100); SELL has target current_price * 0.98
\* and stop current_price * 1.02; HOLD has target current_price and stop
\* current_price * 0.97.
C7_PriceLevels ==
    (Decided /\ current_price.num) =>
      LET p == current_price.mills
          fd == final_decision
      IN  /\ fd["action"] = "BUY" =>
                /\ fd["target_price"] = ScaleRound2(p, 1000000 + GainPercentE4)
                /\ fd["stop_loss"] = ScaleRound2(p, 1000000 - LossPercentE4)
          /\ fd["action"] = "SELL" =>
                /\ fd["target_price"] = 10 * RoundDiv(98 * p, 1000)
                /\ fd["stop_loss"] = 10 * RoundDiv(102 * p, 1000)
          /\ fd["action"] = "HOLD" =>
                /\ fd["target_price"] = p
                /\ fd["stop_loss"] = 10 * RoundDiv(97 * p, 1000)

\* the documented scenario: 80/90/10 at price 100 gives 87, BUY/HIGH,
\* target 106.70 and stop 97.70
C7_Witness ==
    /\ pc = "done"
    /\ current_price = Price(100000)
    /\ opinion["sentiment"] = ("score" :> 8000)
    /\ opinion["technical"] = ("strength" :> 9000)
    /\ opinion["risk"] = ("risk_score" :> 1000)
    /\ result["final_decision"]["ensemble_score"] = 8700
    /\ result["final_decision"]["action"] = "BUY"
    /\ result["final_decision"]["confidence"] = "HIGH"
    /\ result["final_decision"]["target_price"] = 106700
    /\ result["final_decision"]["stop_loss"] = 97700

\* C8: for every action and every numeric price, target_price and stop_loss
\* are rounded to 2 decimal places (whole hundredths).
C8_AllRounded ==
    (pc = "done" /\ current_price.num) =>
      /\ result["final_decision"]["target_price"] % 10 = 0
      /\ result["final_decision"]["stop_loss"] % 10 = 0

PhaseRank(p) ==
    CASE p = "idle"         -> 0
      [] p = "setup"        -> 1
      [] p = "dispatched"   -> 2
      [] p = "scoring"      -> 3
      [] p = "anomaly"      -> 4
      [] p = "anomaly_wait" -> 5
      [] p = "assemble"     -> 6
      [] p = "done"         -> 7

C10_WaitForAll ==
    /\ [](PhaseRank(pc) >= 3 =>
            \A m \in Specialists :
                /\ got[m].kind # "none"
                /\ opinion[m] = Answer(m, got[m]))
    /\ [](pc = "done" =>
            /\ \A m \in Specialists : result[ResultKey(m)] = Answer(m, got[m])
            /\ result["final_decision"] =
                 _generate_ensemble_decision(current_price,
                     Answer("sentiment", got["sentiment"]),
                     Answer("technical", got["technical"]),
                     Answer("risk", got["risk"]))
            /\ result["confidence_score"] =
                 _calculate_confidence(Answer("sentiment", got["sentiment"]),
                     Answer("technical", got["technical"]),
                     Answer("risk", got["risk"])))
    /\ [][\A m \in Specialists, k \in Specialists :
            (m # k /\ task[m] # "failed" /\ task'[m] = "failed")
               => (task'[k] = task[k] /\ outcome'[k] = outcome[k] /\ got'[k] = got[k])]_vars

\* the specialist started last failed first, and its siblings, settling in
\* the reverse of their start order, were still heard
C10_Witness ==
    /\ pc = "done"
    /\ order = << "risk", "technical", "sentiment" >>
    /\ Raised("risk") /\ Answered("technical") /\ Answered("sentiment")
    /\ ~Has(result["technical_analysis"], "error")
    /\ ~Has(result["sentiment_analysis"], "error")

----------------------------------------------------------------------------
(* C11.  No retries: within one call each of the four model clients is    *)
(* invoked at most once, and the status of a sub-task only moves from     *)
(* not started to pending, from pending to calling, and from calling to   *)
(* exactly one of completed and failed, which it never leaves (the        *)
(* anomaly sub-task is not queued: it goes from not started straight to   *)
(* calling, or to completed when it is short-circuited).                  *)

TaskSteps ==
    { << "none", "pending" >>, << "pending", "calling" >>,
      << "calling", "completed" >>, << "calling", "failed" >>,
      << "none", "calling" >>, << "none", "completed" >> }

C11_NoRetries ==
    /\ [](\A m \in Models : calls[m] <= 1)
    /\ [][\A m \in Models :
            /\ task'[m] # task[m] => << task[m], task'[m] >> \in TaskSteps
            /\ Settled(m) => task'[m] = task[m] /\ calls'[m] = calls[m]]_vars

C11_Witness ==
    /\ pc = "done"
    /\ \A m \in Models : calls[m] = 1
    /\ task["sentiment"] = "failed"
    /\ task["technical"] = "completed"
    /\ task["anomaly"] = "failed"

----------------------------------------------------------------------------
(* C12.  Termination: once the call is made, and every outbound call      *)
(* returns or raises, the run returns a result with all eight top-level   *)
(* keys; and a result is never built before the three specialists and     *)
(* the anomaly sub-task have all settled.                                 *)

C12_Termination ==
    /\ (pc # "idle") ~> (pc = "done" /\ DOMAIN result = ResultKeys)
    /\ [](DOMAIN result # {} => \A m \in Models : Settled(m))

C12_Witness ==
    /\ pc = "done"
    /\ DOMAIN result = ResultKeys
    /\ Raised("anomaly") /\ Raised("risk")
    /\ \A m \in Models : Settled(m)

----------------------------------------------------------------------------
(* C13.  When price_change_percent is None the anomaly pass returns       *)
(* {anomaly_detected: false, reason: "No price change data"} and the      *)
(* anomaly client is never invoked; when it is present, 0 included, the   *)
(* anomaly client is invoked exactly once.                                *)

C13_AnomalyShortCircuit ==
    /\ price_change_percent = NoneVal => calls["anomaly"] = 0
    /\ PhaseRank(pc) >= 6 =>
         IF price_change_percent = NoneVal
         THEN /\ anomaly_check = NoPriceChange
              /\ got["anomaly"] = NoReply
         ELSE /\ calls["anomaly"] = 1
              /\ got["anomaly"] # NoReply
              /\ anomaly_check = Answer("anomaly", got["anomaly"])
    /\ pc = "done" => result["anomaly_detection"] = anomaly_check

C13_Witness ==
    /\ pc = "done"
    /\ price_change_percent = Some(0)
    /\ calls["anomaly"] = 1
    /\ Answered("anomaly")

----------------------------------------------------------------------------
(* C14.  The anomaly pass neither blocks nor alters the decision: the     *)
(* decision is made before the anomaly client is invoked, it is the       *)
(* function _generate_ensemble_decision of the price and the three        *)
(* opinions alone, no step of the anomaly pass changes it, and the        *)
(* returned final_decision is that same value whether the price change   *)
(* is absent or present and whatever the anomaly call returns or raises.  *)

DecisionOfOpinions ==
    _generate_ensemble_decision(current_price, opinion["sentiment"],
                                opinion["technical"], opinion["risk"])

C14_AnomalyIndependence ==
    /\ [](calls["anomaly"] > 0 \/ task["anomaly"] # "none" =>
              DOMAIN final_decision # {})
    /\ [](PhaseRank(pc) >= 4 => final_decision = DecisionOfOpinions)
    /\ [](pc = "done" => result["final_decision"] = DecisionOfOpinions)
    /\ [][PhaseRank(pc) >= 4 => final_decision' = final_decision]_vars

C14_Witness ==
    /\ pc = "done"
    /\ price_change_percent # NoneVal
    /\ Get(result["anomaly_detection"], "anomaly_detected", FALSE)
    /\ result["final_decision"]["action"] = "BUY"

----------------------------------------------------------------------------
(* C15.  In each parser, a line whose numeric field does not parse (a     *)
(* number followed by prose) makes only that field absent: the parser     *)
(* returns what it returns for the text without that line.                *)

Fails(m, line) == ~ParseLine(m, EmptyDict, line).ok

WithoutFailing(m, text) == SelectSeq(text, LAMBDA line : ~Fails(m, line))

C15_BadNumberDropsField ==
    pc = "parsed" =>
      \A m \in Models :
          Answered(m) => Parsed(m) = Parse(m, WithoutFailing(m, got[m].text))

----------------------------------------------------------------------------
(* C16.  When no line of the response contains a label of the parser,     *)
(* the parser returns the defaults of its task together with the raw      *)
(* text under "raw".                                                      *)

NoLabel(m, text) ==
    \A i \in 1..Len(text) : \A label \in LabelSet(m) : ~LineHas(text[i], label)

\* the mapping of the except clause of each parser
ParserDefaults(m, response) ==
    CASE m = "sentiment" -> [sentiment |-> << "neutral" >>, score |-> 5000, raw |-> response]
      [] m = "technical" -> [signal |-> << "hold" >>, strength |-> 5000, raw |-> response]
      [] m = "risk"      -> [risk_score |-> 5000, risk_level |-> << "medium" >>, raw |-> response]
      [] m = "anomaly"   -> [anomaly_detected |-> FALSE, raw |-> response]

C16_UnparseableDefaults ==
    pc = "parsed" =>
      \A m \in Models :
          Answered(m) /\ NoLabel(m, got[m].text) =>
              Parsed(m) = ParserDefaults(m, got[m].text)

----------------------------------------------------------------------------
(* C17.  Order independence.  As claimed: every permutation of the lines  *)
(* of a response parses to the same mapping.                              *)

Permute(text, p) == [i \in 1..Len(text) |-> text[p[i]]]

Orders(text) == IF Len(text) = 0 THEN { << >> } ELSE Permutations(1..Len(text))

C17_OrderIndependent ==
    pc = "parsed" =>
      \A m \in Models :
          Answered(m) =>
              \A p \in Orders(got[m].text) :
                  Parse(m, Permute(got[m].text, p)) = Parsed(m)

\* the field a line sets when it is parsed on its own
FieldsOf(m, line) == DOMAIN ParseLine(m, EmptyDict, line).d

DistinctFields(m, text) ==
    \A i, j \in 1..Len(text) :
        i < j => FieldsOf(m, text[i]) \cap FieldsOf(m, text[j]) = {}

WithoutRaw(d) == [k \in DOMAIN d \ { "raw" } |-> d[k]]

\* C17, amended: when no two lines of the response set the same field,
\* every permutation of its lines parses to the same mapping, apart from
\* the raw text that the defaults of a failed parse carry.
C17_OrderIndependentDistinct ==
    pc = "parsed" =>
      \A m \in Models :
          Answered(m) /\ DistinctFields(m, got[m].text) =>
              \A p \in Orders(got[m].text) :
                  WithoutRaw(Parse(m, Permute(got[m].text, p))) = WithoutRaw(Parsed(m))

C17_Witness ==
    /\ pc = "parsed"
    /\ got["sentiment"] = Reply(<< Line("MOOD:", << "upbeat" >>), Line("SCORE:", << "80" >>),
                                  Line("SENTIMENT:", << "Bullish" >>) >>)
    /\ Parsed("sentiment") =
         [sentiment |-> << "bullish" >>, score |-> 8000, mood |-> << "upbeat" >>]

----------------------------------------------------------------------------
(* C18.  Round trip: a block of the four lines SENTIMENT, SCORE, DRIVERS  *)
(* and MOOD, each built as the label and a value, parses back to exactly  *)
(* those four fields, the sentiment lower-cased and the score a number;   *)
(* parsing the text again gives the same mapping; and a text built of     *)
(* such lines parses to a mapping with a key for each label that occurs   *)
(* in it and no other key.                                                *)

Block(sentiment, score, drivers, mood) ==
    << Line("SENTIMENT:", sentiment), Line("SCORE:", score),
       Line("DRIVERS:", drivers), Line("MOOD:", mood) >>

KeyOf(label) ==
    CASE label = "SENTIMENT:" -> "sentiment"
      [] label = "SCORE:"     -> "score"
      [] label = "DRIVERS:"   -> "drivers"
      [] label = "MOOD:"      -> "mood"

WellFormed(line) ==
    \E label \in LabelSet("sentiment") : \E value \in FieldValues(label) :
        line = Line(label, value)

C18_RoundTrip ==
    pc = "parsed" /\ Answered("sentiment") =>
      LET text == got["sentiment"].text
      IN  /\ \A sentiment \in FieldValues("SENTIMENT:"), score \in FieldValues("SCORE:"),
                drivers \in FieldValues("DRIVERS:"), mood \in FieldValues("MOOD:") :
                  text = Block(sentiment, score, drivers, mood) =>
                      Parsed("sentiment") =
                          [sentiment |-> Lower(sentiment), score |-> Float(score),
                           drivers |-> drivers, mood |-> mood]
          /\ Parse("sentiment", text) = Parsed("sentiment")
          /\ (\A i \in 1..Len(text) : WellFormed(text[i])) =>
                  DOMAIN Parsed("sentiment") =
                      { KeyOf(text[i][1]) : i \in 1..Len(text) }

C18_Witness ==
    /\ pc = "parsed"
    /\ got["sentiment"] =
         Reply(Block(<< "Bullish" >>, << "80" >>, << "earnings", "beat" >>, << "upbeat" >>))
    /\ Parsed("sentiment") =
         [sentiment |-> << "bullish" >>, score |-> 8000,
          drivers |-> << "earnings", "beat" >>, mood |-> << "upbeat" >>]

----------------------------------------------------------------------------
(* C19.  Step A containment: a raising news fetch leaves the empty        *)
(* neutral news snapshot (no articles, news_count 0), a raising indicator *)
(* computation leaves the empty indicator snapshot, the snapshot of the   *)
(* fetch that did not raise is what its provider returned, and the run    *)
(* goes on to its result with both.                                       *)

C19_StepAContainment ==
    /\ fetched["news"] = "raise" =>
         /\ news_data = DefaultNews
         /\ news_data["articles"] = << >>
    /\ fetched["news"] = "ok" => news_data \in NewsAnswers
    /\ fetched["technical"] = "raise" => technical_indicators = EmptyDict
    /\ fetched["technical"] = "ok" =>
         technical_indicators \in IndicatorAnswers(BarCount(historical_data))
    /\ pc = "done" =>
         /\ result["metadata"]["news_count"] = Len(news_data["articles"])
         /\ fetched["news"] = "raise" => result["metadata"]["news_count"] = 0
         /\ result["metadata"]["technical_indicators"] = technical_indicators
         /\ DOMAIN result["final_decision"] # {}

C19_Witness ==
    /\ pc = "done"
    /\ fetched["news"] = "raise"
    /\ fetched["technical"] = "ok"
    /\ result["metadata"]["news_count"] = 0
    /\ Has(result["metadata"]["technical_indicators"], "rsi")

----------------------------------------------------------------------------
(* C20.  A call with current_price <= 0 is rejected before any news,      *)
(* indicator or model call is dispatched, and no decision is produced     *)
(* for it.                                                                *)

C20_RejectNonPositivePrice ==
    pc # "idle" /\ current_price.num /\ current_price.mills <= 0 =>
        /\ \A f \in DOMAIN fetch : fetch[f] \notin { "calling", "settled" }
        /\ \A f \in DOMAIN fetched : fetched[f] = "none"
        /\ \A m \in Models : calls[m] = 0
        /\ final_decision = EmptyDict
        /\ result = EmptyDict

----------------------------------------------------------------------------
(* C21.  With an empty list of bars the run completes and the indicator   *)
(* snapshot it reports carries the indicator entries with signal          *)
(* "unknown"; with fewer than 20 bars the indicator provider returns the  *)
(* insufficient-data marker and the run completes with a decision.        *)

C21_ShortHistory ==
    pc = "done" =>
      LET snapshot == result["metadata"]["technical_indicators"]
      IN  /\ historical_data = Some(0) =>
               /\ Has(snapshot, "rsi")
               /\ snapshot["rsi"]["signal"] = "unknown"
          /\ ( /\ historical_data # NoneVal
               /\ BarCount(historical_data) > 0
               /\ BarCount(historical_data) < MinBars
               /\ fetched["technical"] = "ok" ) =>
               /\ snapshot = InsufficientData
               /\ DOMAIN result["final_decision"] # {}

----------------------------------------------------------------------------
(* C22.  Two concurrent calls on the shared orchestrator do not           *)
(* interfere: under every interleaving the result of each call is the     *)
(* result computed from its own arguments and from the responses to its   *)
(* own outbound calls, a step of one call leaves the locals of the other  *)
(* call as they are, and no field of the orchestrator is written after    *)
(* __init__.                                                              *)

OwnResult(f) ==
    LET sentiment == Answer("sentiment", f.got["sentiment"])
        technical == Answer("technical", f.got["technical"])
        risk      == Answer("risk", f.got["risk"])
    IN  [ current_price |-> f.current_price,
          sentiment_analysis |-> sentiment,
          technical_analysis |-> technical,
          risk_assessment |-> risk,
          anomaly_detection |-> IF f.price_change_percent = NoneVal THEN NoPriceChange
                                ELSE Answer("anomaly", f.got["anomaly"]),
          final_decision |-> _generate_ensemble_decision(f.current_price,
                                 sentiment, technical, risk),
          confidence_score |-> _calculate_confidence(sentiment, technical, risk),
          metadata |-> [ technical_indicators |->
                             IF f.fetched["technical"] = "ok"
                             THEN f.technical_indicators ELSE EmptyDict,
                         news_count |->
                             IF f.fetched["news"] = "ok"
                             THEN Len(f.news_data["articles"]) ELSE 0 ] ]

C22_NoInterference ==
    /\ [](\A f \in { Frame, other } : f.pc = "done" => f.result = OwnResult(f))
    /\ [](orchestrator = Fields)
    /\ [][orchestrator' = orchestrator]_vars
    /\ [][other' = other \/ (other' = Frame /\ Frame' = other)]_vars

C22_Witness ==
    /\ pc = "done"
    /\ other.pc = "done"
    /\ current_price # other.current_price
    /\ Raised("sentiment") /\ other.got["sentiment"].kind = "text"
    /\ result["final_decision"]["ensemble_score"] #
           other.result["final_decision"]["ensemble_score"]
    /\ result = OwnResult(Frame)

----------------------------------------------------------------------------
(* C23.  confidence_score lies in [0,100] for every combination of        *)
(* present and absent specialist scores and every score value, values     *)
(* below 0 and above 100 included.                                        *)

C23_ConfidenceInRange ==
    pc = "done" =>
        /\ result["confidence_score"] >= 0
        /\ result["confidence_score"] <= 10000

\* scores 120, 0 and risk 0 (collected as 100): the variance is far above 100
C23_Witness ==
    /\ pc = "done"
    /\ Get(result["sentiment_analysis"], "score", 0) = 12000
    /\ Get(result["technical_analysis"], "strength", 5000) = 0
    /\ Has(result["risk_assessment"], "risk_score")
    /\ result["confidence_score"] = 0

----------------------------------------------------------------------------
(* C24.  confidence_score is computed from exactly the numbers present    *)
(* among sentiment.score, technical.strength and 100 - risk.risk_score:   *)
(* 50.0 when none is present, otherwise max(0, 100 - population           *)
(* variance) at 2 decimals; equal values or a single value give 100, a    *)
(* variance of 100 or more gives 0.                                       *)

\* the numbers present in the three reported opinions, in hundredths
Collected ==
    { << "sentiment", result["sentiment_analysis"]["score"] >> :
          x \in IF Has(result["sentiment_analysis"], "score") THEN { 1 } ELSE { } }
      \cup { << "technical", result["technical_analysis"]["strength"] >> :
          x \in IF Has(result["technical_analysis"], "strength") THEN { 1 } ELSE { } }
      \cup { << "risk", 10000 - result["risk_assessment"]["risk_score"] >> :
          x \in IF Has(result["risk_assessment"], "risk_score") THEN { 1 } ELSE { } }

\* n * (sum of squares) - (sum)^2  =  n^2 * population variance
RECURSIVE SumOver(_, _)
SumOver(S, square) ==
    IF S = {} THEN 0
    ELSE LET e == CHOOSE x \in S : TRUE
         IN  (IF square THEN e[2] * e[2] ELSE e[2]) + SumOver(S \ { e }, square)

VarianceNN == Cardinality(Collected) * SumOver(Collected, TRUE)
                - SumOver(Collected, FALSE) * SumOver(Collected, FALSE)

C24_ConfidenceFormula ==
    pc = "done" =>
      LET n == Cardinality(Collected)
          c == result["confidence_score"]
          \* 100 - variance, times n^2, in squared hundredths
          d == 1000000 * n * n - VarianceNN
      IN  /\ n = 0 => c = 5000
          /\ n > 0 /\ d <= 0 => c = 0
          /\ n > 0 /\ d > 0 =>
                /\ 100 * n * n * c - d <= 50 * n * n
                /\ d - 100 * n * n * c <= 50 * n * n
          /\ n > 0 /\ VarianceNN = 0 => c = 10000

\* two numbers present, 80 and 90: variance 25, confidence 75.0
C24_Witness ==
    /\ pc = "done"
    /\ Cardinality(Collected) = 2
    /\ VarianceNN = 4 * 250000
    /\ result["confidence_score"] = 7500

----------------------------------------------------------------------------
(* C25.  overall_signal is a majority vote over RSI, SMA, MACD and        *)
(* Bollinger: BUY iff at least 3 lean bullish (RSI or Bollinger oversold, *)
(* SMA or MACD bullish), else SELL iff at least 3 lean bearish (RSI or    *)
(* Bollinger overbought, SMA or MACD bearish), else HOLD; a neutral, an   *)
(* unknown or a missing signal votes for neither side, and the BUY and    *)
(* the SELL condition never hold together.                                *)

Says(name, word) ==
    /\ Has(technical_indicators, name)
    /\ technical_indicators[name]["signal"] = word

BullishLeaning ==
    { name \in { "rsi", "bollinger_bands" } : Says(name, "oversold") }
      \cup { name \in { "sma", "macd" } : Says(name, "bullish") }

BearishLeaning ==
    { name \in { "rsi", "bollinger_bands" } : Says(name, "overbought") }
      \cup { name \in { "sma", "macd" } : Says(name, "bearish") }

C25_MajorityVote ==
    pc = "indicators_done" =>
      LET overall == technical_indicators["overall_signal"]
          buy  == Cardinality(BullishLeaning) >= 3
          sell == Cardinality(BearishLeaning) >= 3
      IN  /\ ~(buy /\ sell)
          /\ overall = "BUY" <=> buy
          /\ overall = "SELL" <=> (~buy /\ sell)
          /\ overall = "HOLD" <=> (~buy /\ ~sell)
          /\ overall \in { "BUY", "SELL", "HOLD" }

\* three bearish-leaning indicators and an unknown one
C25_Witness ==
    /\ pc = "indicators_done"
    /\ Says("rsi", "overbought") /\ Says("sma", "bearish")
    /\ Says("macd", "unknown") /\ Says("bollinger_bands", "overbought")
    /\ technical_indicators["overall_signal"] = "SELL"

----------------------------------------------------------------------------
(* C26.  In every returned decision the (action, confidence) pair is the  *)
(* one the threshold ladder assigns to the reported ensemble_score, the   *)
(* value rounded to 2 decimals: a reported 70.0 comes with BUY/HIGH.      *)

C26_LadderOfReported ==
    (pc = "done" /\ current_price.num) =>
      LET fd == result["final_decision"]
          rung == Ladder(10 * fd["ensemble_score"])
      IN  /\ fd["action"] = rung.action
          /\ fd["confidence"] = rung.confidence

----------------------------------------------------------------------------
(* C27.  For current_price > 0 and risk_score in [0,100] the price levels *)
(* are ordered as the action says: BUY has stop_loss < current_price <    *)
(* target_price, with a gain between 3.5% and 8% and a loss between 2%    *)
(* and 5% (each at 2 decimals); SELL has target_price < current_price <   *)
(* stop_loss; HOLD has stop_loss < current_price = target_price.          *)

C27_PriceOrdering ==
    ( /\ pc = "done"
      /\ current_price.num
      /\ current_price.mills > 0
      /\ InRange(Get(result["risk_assessment"], "risk_score", 5000)) ) =>
      LET p == current_price.mills
          fd == result["final_decision"]
      IN  /\ fd["action"] = "BUY" =>
                /\ fd["stop_loss"] < p /\ p < fd["target_price"]
                /\ fd["target_price"] >= ScaleRound2(p, 1035000)
                /\ fd["target_price"] <= ScaleRound2(p, 1080000)
                /\ fd["stop_loss"] <= ScaleRound2(p, 980000)
                /\ fd["stop_loss"] >= ScaleRound2(p, 950000)
          /\ fd["action"] = "SELL" =>
                fd["target_price"] < p /\ p < fd["stop_loss"]
          /\ fd["action"] = "HOLD" =>
                fd["stop_loss"] < p /\ p = fd["target_price"]

(***************************************************************************)
(* C28.  The default scores of a failure stub count as present for the     *)
(* confidence metric: when the three specialist calls all raise,           *)
(* confidence_score is 100.0; when the three all answer with a text in     *)
(* which no label is found, no score is present and confidence_score is    *)
(* 50.0.  In both cases ensemble_score is 50 and the decision is           *)
(* HOLD/MEDIUM.                                                            *)
(***************************************************************************)
AllRaised == \A m \in Specialists : Raised(m)

AllUnlabelled == \A m \in Specialists : Answered(m) /\ NoLabel(m, got[m].text)

NeutralDecision ==
    /\ result["final_decision"]["ensemble_score"] = 5000
    /\ result["final_decision"]["action"] = "HOLD"
    /\ result["final_decision"]["confidence"] = "MEDIUM"

NeutralOrFallback ==
    /\ result["final_decision"]["ensemble_score"] = 5000
    /\ result["final_decision"]["action"] = "HOLD"
    /\ result["final_decision"]["confidence"] =
          IF current_price.num THEN "MEDIUM" ELSE "LOW"
    /\ Has(result["final_decision"], "error") <=> ~current_price.num

C28_WitnessUnlabelled ==
    /\ pc = "done"
    /\ AllUnlabelled
    /\ result["confidence_score"] = 5000

(***************************************************************************)
(* C29.  trigger_analysis falls back at most once.  A call entered with    *)
(* use_multi_model set sends at most two requests: the first to the        *)
(* multi-model endpoint, and a second one, to the single-model endpoint    *)
(* with the same arguments, only if the first attempt ended with another   *)
(* status than 200 or with an exception (raised by the post or while the   *)
(* response was read and displayed).  A call entered with the flag clear   *)
(* sends one request.  The recursion is never deeper than two frames,      *)
(* every call returns, and when it returns use_multi_model has the value   *)
(* it had on entry.                                                        *)
(***************************************************************************)
FirstFailed == requests[1].outcome \in { "rejected", "raise", "unreadable" }

AtMostOneFallback ==
    /\ Len(stack) <= 2
    /\ Len(requests) <= 2
    /\ requests # << >> =>
          /\ requests[1].endpoint = Endpoint(entry)
          /\ Len(requests) = 2 =>
                /\ entry
                /\ FirstFailed
                /\ requests[2].endpoint = SingleModelEndpoint
                /\ requests[2].symbol = requests[1].symbol
                /\ requests[2].trigger_type = requests[1].trigger_type

FlagRestored == (stack # << >> /\ stack' = << >>) => use_multi_model' = entry

C29_FallbackOnce ==
    /\ []AtMostOneFallback
    /\ [][FlagRestored]_vars
    /\ (stack # << >>) ~> (stack = << >>)

C29_Witness ==
    /\ stack = << >>
    /\ entry
    /\ use_multi_model
    /\ Len(requests) = 2
    /\ requests[1].endpoint = MultiModelEndpoint
    /\ requests[1].outcome = "rejected"
    /\ requests[2].endpoint = SingleModelEndpoint
    /\ requests[2].outcome = "raise"

(***************************************************************************)
(* C30.  In _check_prices the baseline previous_prices[symbol] changes     *)
(* only when a trigger fired for that symbol, and it is then set to the    *)
(* current price however the analysis request ended.  A change at or below *)
(* minus the drop threshold gives price_drop, otherwise a change at or     *)
(* above the spike threshold gives price_spike, never both.  A check that  *)
(* fires no trigger (small change, no price, no baseline, an exception)    *)
(* leaves every baseline as it was and goes on to the next symbol, so a    *)
(* round looks at every symbol of the watchlist.                           *)
(***************************************************************************)
Baseline(prices, symbol) == IF Has(prices, symbol) THEN Some(prices[symbol]) ELSE NoneVal

Symbols == { watchlist[i] : i \in DOMAIN watchlist }

\* the baselines change in _check_prices only by the end of a trigger
BaselineFrame ==
    position # 0 =>
      \A symbol \in Symbols :
        Baseline(previous_prices', symbol) # Baseline(previous_prices, symbol) =>
          /\ pending # NoneVal
          /\ pending' = NoneVal
          /\ pending[1].symbol = symbol
          /\ previous_prices'[symbol] = pending[1].current_price

\* the end of a trigger sets the baseline, whatever the request's outcome
BaselineSet ==
    (pending # NoneVal /\ pending' = NoneVal) =>
      /\ previous_prices'[pending[1].symbol] = pending[1].current_price
      /\ analysed'[1].trigger = pending[1]
      /\ position' = position + 1

\* a look at one symbol: which trigger fires, if any
Classified ==
    (position \in DOMAIN watchlist /\ pending = NoneVal /\ quote' # NoneVal
       /\ (position' # position \/ pending' # NoneVal)) =>
      LET symbol == watchlist[position]
          q == quote'[1]
          usable == q.kind = "price" /\ q.value # 0 /\ Has(previous_prices, symbol)
          drop == usable /\ 100 * (q.value - previous_prices[symbol]) * 100
                              <= (0 - price_drop_threshold) * previous_prices[symbol]
          spike == usable /\ ~drop
                          /\ 100 * (q.value - previous_prices[symbol]) * 100
                              >= price_spike_threshold * previous_prices[symbol]
      IN  /\ previous_prices' = previous_prices
          /\ drop => /\ pending' # NoneVal
                     /\ pending'[1].trigger_type = "price_drop"
          /\ spike => /\ pending' # NoneVal
                      /\ pending'[1].trigger_type = "price_spike"
          /\ pending' # NoneVal =>
                /\ drop \/ spike
                /\ pending'[1].symbol = symbol
                /\ pending'[1].current_price = q.value
          /\ ~(drop \/ spike) => pending' = NoneVal /\ position' = position + 1

\* when a round of _check_prices is over, every symbol has been looked at
AllChecked == position = Len(watchlist) + 1 => checked = Symbols

C30_BaselineFrame ==
    /\ [][BaselineFrame /\ BaselineSet /\ Classified]_vars
    /\ []AllChecked

\* a drop of exactly the threshold has fired, its analysis request raised,
\* and the baseline is the new price
C30_Witness ==
    /\ analysed # NoneVal
    /\ analysed[1].outcome = "raise"
    /\ analysed[1].trigger.trigger_type = "price_drop"
    /\ analysed[1].trigger.previous_price = 10000
    /\ analysed[1].trigger.current_price = 9800
    /\ analysed[1].trigger.symbol = "RELIANCE"
    /\ position = 3
    /\ pending = NoneVal
    /\ quote = Some(Ltp(9800))
    /\ previous_prices["RELIANCE"] = 9800

====
